---- MODULE Spec2Model ----
(***************************************************************************)
(* Inventix AI backend: the evidence-grounded trust calibration pipeline.  *)
(* Tables of the database are sequences of rows (row id = index), request  *)
(* handlers are actions, service functions are operators.                  *)
(*                                                                         *)
(* Numbers: similarity scores are the stored integers (score * 10000).     *)
(* A disagreement rate is the exact fraction <<num, den>>; comparing it    *)
(* with a decimal literal is done by cross multiplication, which agrees    *)
(* with the float comparison of the code for the small integers used here  *)
(* (a correctly rounded quotient of two small integers is equal to the     *)
(* literal when the fraction equals it and is on the same side otherwise). *)
(***************************************************************************)
EXTENDS Integers, Sequences, FiniteSets, TLC

\* ---------------------------------------------------------------- bounds
MaxProjects == 1
MaxEvidence == 1
MaxFeedback == 2
MaxAudit == 2
MaxDrafts == 1
MaxCalcEvidence == 12
MaxDisagree == 4
MaxAgree == 19
MaxKindCount == 2
MaxScore == 10000

\* the values int(cosine * 10000) takes in the runs of the handlers
ScoreValues == {4000, 7600, 7800, 8200}
ProjectIds == 1..MaxProjects

\* ------------------------------------------------------- program constants
EVIDENCE_COUNT_LOW_THRESHOLD == 3
EVIDENCE_COUNT_MEDIUM_THRESHOLD == 10
\* DISAGREEMENT_HIGH_THRESHOLD = 0.30, as the fraction 30/100
DISAGREEMENT_HIGH_THRESHOLD == <<30, 100>>
\* the literals 0.1 and 0.2 of rules 3, 4 and 5
MEDIUM_DISAGREEMENT_LIMIT == <<1, 10>>
MODERATE_DISAGREEMENT_LIMIT == <<2, 10>>
\* SIMILARITY_CLARITY_THRESHOLD = 0.20 in score units
SIMILARITY_CLARITY_THRESHOLD == 2000

research_red_threshold == 8000
research_yellow_threshold == 5000
patent_red_threshold == 7500
patent_yellow_threshold == 4500

ProjectType == {"RESEARCH", "PATENT", "MIXED"}
NoveltyRiskLevel == {"GREEN", "YELLOW", "RED", "UNKNOWN"}
FeedbackType == {"HELPFUL", "NOT_HELPFUL", "AGREE", "DISAGREE", "NEEDS_REVISION", "NEEDS_EXPERT"}
OutputType == {"SIMILARITY", "SUMMARY", "DRAFT", "CLAIM", "RECOMMENDATION", "COMPARATIVE"}
ConfidenceLevel == {"LOW", "MEDIUM", "HIGH"}
ActionType == {"PROJECT_CREATED", "FILE_UPLOADED", "TEXT_EXTRACTED", "EVIDENCE_RETRIEVED",
               "SIMILARITY_COMPUTED", "NOVELTY_CLASSIFIED", "DRAFT_OPTIMIZED", "CLAIMS_GENERATED",
               "FEEDBACK_SUBMITTED", "CALIBRATION_UPDATED", "COMPLIANCE_CHECK", "SYSTEM_STARTUP"}

NOTE_HIGH_DISAGREEMENT == "NOTE_HIGH_DISAGREEMENT"
NOTE_LOW_EVIDENCE == "NOTE_LOW_EVIDENCE"
NOTE_HUMAN_REVIEW == "NOTE_HUMAN_REVIEW"
NOTE_PATENT_CONTEXT == "NOTE_PATENT_CONTEXT"
NOTE_NOVELTY_RED == "NOTE_NOVELTY_RED"
NOTE_LOW_SIMILARITY_CLARITY == "NOTE_LOW_SIMILARITY_CLARITY"
NOTE_NO_FEEDBACK == "NOTE_NO_FEEDBACK"
NOTE_MIXED_SIGNALS == "NOTE_MIXED_SIGNALS"

None == "None"

\* ------------------------------------------------------------------ state
VARIABLES
    compliance_mode,          \* settings.compliance_mode
    audit_logs_enabled,       \* settings.audit_logs_enabled
    projects,                 \* table projects: <<[type]>>
    analysis_states,          \* table analysis_states, keyed by project id
    candidate_evidence,       \* table candidate_evidence: <<[project_id, source_type]>>
    similarity_scores,        \* table similarity_scores
    user_feedback,            \* table user_feedback
    confidence_calibrations,  \* table confidence_calibrations
    audit_logs,               \* table audit_logs
    draft_versions,           \* table draft_versions: <<[project_id, version]>>
    claim_drafts,             \* table claim_drafts: <<[project_id, version]>>
    requests,                 \* the requests in flight: what each has read and will write
    response                  \* what the last request returned to its caller

vars == <<compliance_mode, audit_logs_enabled, projects, analysis_states,
          candidate_evidence, similarity_scores, user_feedback,
          confidence_calibrations, audit_logs, draft_versions, claim_drafts,
          requests, response>>

\* ---------------------------------------------------------------- helpers
Max(S) == CHOOSE x \in S : \A y \in S : y <= x

\* a dictionary lookup with a default, dict.get(key, default)
DictGet(dict, key, default) == IF key \in DOMAIN dict THEN dict[key] ELSE default

\* a / b > c / d for non-negative fractions with positive denominators
FracGT(x, y) == x[1] * y[2] > y[1] * x[2]
FracLT(x, y) == x[1] * y[2] < y[1] * x[2]

\* round(n / d, 3) in units of 1/1000: Python rounds half to even
RoundMilli(n, d) ==
    LET q == (1000 * n) \div d
        r == (1000 * n) % d
    IN  IF 2 * r < d THEN q
        ELSE IF 2 * r > d THEN q + 1
        ELSE IF q % 2 = 0 THEN q ELSE q + 1

\* ------------------------------------------- calibration_service.py
\* RESTRICTED_CONTEXTS: "contexts that never get HIGH confidence"; no code
\* reads it
RESTRICTED_CONTEXTS == {"PATENT", "LEGAL", "MEDICAL", "FINANCIAL"}

\* is_restricted_context = project.type == ProjectType.PATENT
IsRestrictedContext(project) == project.type = "PATENT"

\* db.query(CandidateEvidence).filter(project_id == ...).count()
EvidenceCount(project_id) ==
    Cardinality({i \in DOMAIN candidate_evidence : candidate_evidence[i].project_id = project_id})

\* novelty risk read from the stored analysis state, UNKNOWN without one
StoredNoveltyRisk(project_id) ==
    IF project_id \in DOMAIN analysis_states
    THEN analysis_states[project_id].novelty_risk
    ELSE "UNKNOWN"

\* the row ids of the project's feedback
FeedbackList(project_id) ==
    {i \in DOMAIN user_feedback : user_feedback[i].project_id = project_id}

disagree_types == {"DISAGREE", "NOT_HELPFUL", "NEEDS_REVISION"}

\* disagreements = sum(1 for f in feedback_list if f.feedback_type in disagree_types)
Disagreements(feedback_list) ==
    Cardinality({i \in feedback_list : user_feedback[i].feedback_type \in disagree_types})

\* disagreement_rate as the fraction <<num, den>>; 0.0 is <<0, 1>>
DisagreementRate(feedback_list) ==
    IF Cardinality(feedback_list) = 0
    THEN <<0, 1>>
    ELSE <<Disagreements(feedback_list), Cardinality(feedback_list)>>

\* a slip of the threshold: 0.50 instead of 0.30
HighDisagreement_Half(disagreement_rate) == FracGT(disagreement_rate, <<50, 100>>)

\* high_disagreement = disagreement_rate > DISAGREEMENT_HIGH_THRESHOLD
HighDisagreement(disagreement_rate) == FracGT(disagreement_rate, DISAGREEMENT_HIGH_THRESHOLD)

\* similarity_clarity: |top - second| of the project's scores, 0 with fewer than two
SimilarityClarity(project_id) ==
    LET rows == {i \in DOMAIN similarity_scores : similarity_scores[i].project_id = project_id}
    IN  IF Cardinality(rows) >= 2
        THEN LET top == CHOOSE i \in rows : \A j \in rows : similarity_scores[j].score <= similarity_scores[i].score
                 second == Max({similarity_scores[j].score : j \in rows \ {top}})
             IN  similarity_scores[top].score - second
        ELSE 0

\* the cascade without the cap of rule 3: strong evidence in a restricted
\* context is rated HIGH
ApplyRules_NoCap(novelty_risk, evidence_count, disagreement_rate, is_restricted_context) ==
    IF novelty_risk = "RED" /\ evidence_count < EVIDENCE_COUNT_LOW_THRESHOLD
    THEN <<"LOW", <<NOTE_HUMAN_REVIEW>> >>
    ELSE IF FracGT(disagreement_rate, DISAGREEMENT_HIGH_THRESHOLD)
    THEN <<"LOW", <<NOTE_HUMAN_REVIEW>> >>
    ELSE IF evidence_count >= EVIDENCE_COUNT_MEDIUM_THRESHOLD
            /\ FracLT(disagreement_rate, MEDIUM_DISAGREEMENT_LIMIT)
    THEN <<"HIGH", <<>> >>
    ELSE IF is_restricted_context
    THEN <<"LOW", <<NOTE_HUMAN_REVIEW>> >>
    ELSE IF evidence_count >= EVIDENCE_COUNT_LOW_THRESHOLD
    THEN IF FracLT(disagreement_rate, MODERATE_DISAGREEMENT_LIMIT)
         THEN <<"MEDIUM", <<>> >>
         ELSE <<"LOW", <<NOTE_MIXED_SIGNALS>> >>
    ELSE <<"LOW", <<NOTE_HUMAN_REVIEW>> >>

\* the cascade with rule 5 comparing disagreement_rate <= 0.2
ApplyRules_Rule5Inclusive(novelty_risk, evidence_count, disagreement_rate, is_restricted_context) ==
    IF novelty_risk = "RED" /\ evidence_count < EVIDENCE_COUNT_LOW_THRESHOLD
    THEN <<"LOW", <<NOTE_HUMAN_REVIEW>> >>
    ELSE IF FracGT(disagreement_rate, DISAGREEMENT_HIGH_THRESHOLD)
    THEN <<"LOW", <<NOTE_HUMAN_REVIEW>> >>
    ELSE IF is_restricted_context
    THEN IF evidence_count >= EVIDENCE_COUNT_MEDIUM_THRESHOLD
            /\ FracLT(disagreement_rate, MEDIUM_DISAGREEMENT_LIMIT)
         THEN <<"MEDIUM", <<>> >>
         ELSE <<"LOW", <<NOTE_HUMAN_REVIEW>> >>
    ELSE IF evidence_count >= EVIDENCE_COUNT_MEDIUM_THRESHOLD
            /\ FracLT(disagreement_rate, MEDIUM_DISAGREEMENT_LIMIT)
    THEN <<"MEDIUM", <<>> >>
    ELSE IF evidence_count >= EVIDENCE_COUNT_LOW_THRESHOLD
    THEN IF ~FracGT(disagreement_rate, MODERATE_DISAGREEMENT_LIMIT)
         THEN <<"MEDIUM", <<>> >>
         ELSE <<"LOW", <<NOTE_MIXED_SIGNALS>> >>
    ELSE <<"LOW", <<NOTE_HUMAN_REVIEW>> >>

\* the cascade with a low-evidence threshold of 2 instead of 3
ApplyRules_LowThresholdTwo(novelty_risk, evidence_count, disagreement_rate, is_restricted_context) ==
    IF novelty_risk = "RED" /\ evidence_count < 2
    THEN <<"LOW", <<NOTE_HUMAN_REVIEW>> >>
    ELSE IF HighDisagreement(disagreement_rate)
    THEN <<"LOW", <<NOTE_HUMAN_REVIEW>> >>
    ELSE IF is_restricted_context
    THEN IF evidence_count >= EVIDENCE_COUNT_MEDIUM_THRESHOLD
            /\ FracLT(disagreement_rate, MEDIUM_DISAGREEMENT_LIMIT)
         THEN <<"MEDIUM", <<>> >>
         ELSE <<"LOW", <<NOTE_HUMAN_REVIEW>> >>
    ELSE IF evidence_count >= EVIDENCE_COUNT_MEDIUM_THRESHOLD
            /\ FracLT(disagreement_rate, MEDIUM_DISAGREEMENT_LIMIT)
    THEN <<"MEDIUM", <<>> >>
    ELSE IF evidence_count >= 2
    THEN IF FracLT(disagreement_rate, MODERATE_DISAGREEMENT_LIMIT)
         THEN <<"MEDIUM", <<>> >>
         ELSE <<"LOW", <<NOTE_MIXED_SIGNALS>> >>
    ELSE <<"LOW", <<NOTE_HUMAN_REVIEW>> >>

\* the cascade with rule 4 rating strong, undisputed evidence HIGH
ApplyRules_StrongIsHigh(novelty_risk, evidence_count, disagreement_rate, is_restricted_context) ==
    IF novelty_risk = "RED" /\ evidence_count < EVIDENCE_COUNT_LOW_THRESHOLD
    THEN <<"LOW", <<NOTE_HUMAN_REVIEW>> >>
    ELSE IF HighDisagreement(disagreement_rate)
    THEN <<"LOW", <<NOTE_HUMAN_REVIEW>> >>
    ELSE IF is_restricted_context
    THEN IF evidence_count >= EVIDENCE_COUNT_MEDIUM_THRESHOLD
            /\ FracLT(disagreement_rate, MEDIUM_DISAGREEMENT_LIMIT)
         THEN <<"MEDIUM", <<>> >>
         ELSE <<"LOW", <<NOTE_HUMAN_REVIEW>> >>
    ELSE IF evidence_count >= EVIDENCE_COUNT_MEDIUM_THRESHOLD
            /\ FracLT(disagreement_rate, MEDIUM_DISAGREEMENT_LIMIT)
    THEN <<"HIGH", <<>> >>
    ELSE IF evidence_count >= EVIDENCE_COUNT_LOW_THRESHOLD
    THEN IF FracLT(disagreement_rate, MODERATE_DISAGREEMENT_LIMIT)
         THEN <<"MEDIUM", <<>> >>
         ELSE <<"LOW", <<NOTE_MIXED_SIGNALS>> >>
    ELSE <<"LOW", <<NOTE_HUMAN_REVIEW>> >>

\* the rule cascade; returns <<confidence_level, note appended by the rule>>
ApplyRules(novelty_risk, evidence_count, disagreement_rate, is_restricted_context) ==
    IF novelty_risk = "RED" /\ evidence_count < EVIDENCE_COUNT_LOW_THRESHOLD
    THEN <<"LOW", <<NOTE_HUMAN_REVIEW>> >>
    ELSE IF HighDisagreement(disagreement_rate)
    THEN <<"LOW", <<NOTE_HUMAN_REVIEW>> >>
    ELSE IF is_restricted_context
    THEN IF evidence_count >= EVIDENCE_COUNT_MEDIUM_THRESHOLD
            /\ FracLT(disagreement_rate, MEDIUM_DISAGREEMENT_LIMIT)
         THEN <<"MEDIUM", <<>> >>
         ELSE <<"LOW", <<NOTE_HUMAN_REVIEW>> >>
    ELSE IF evidence_count >= EVIDENCE_COUNT_MEDIUM_THRESHOLD
            /\ FracLT(disagreement_rate, MEDIUM_DISAGREEMENT_LIMIT)
    THEN <<"MEDIUM", <<>> >>
    ELSE IF evidence_count >= EVIDENCE_COUNT_LOW_THRESHOLD
    THEN IF FracLT(disagreement_rate, MODERATE_DISAGREEMENT_LIMIT)
         THEN <<"MEDIUM", <<>> >>
         ELSE <<"LOW", <<NOTE_MIXED_SIGNALS>> >>
    ELSE <<"LOW", <<NOTE_HUMAN_REVIEW>> >>

\* human review recommended only for a LOW result
HumanReviewRecommended_LowOnly(confidence_level, is_restricted_context, high_disagreement, novelty_risk) ==
    confidence_level = "LOW"

\* human_review_recommended
HumanReviewRecommended(confidence_level, is_restricted_context, high_disagreement, novelty_risk) ==
    \/ confidence_level = "LOW"
    \/ is_restricted_context
    \/ high_disagreement
    \/ novelty_risk = "RED"

\* the inputs calculate_confidence reads from the database for a project
CalibrationInputs(project_id) ==
    [is_restricted_context |-> IsRestrictedContext(projects[project_id]),
     evidence_count        |-> EvidenceCount(project_id),
     novelty_risk          |-> StoredNoveltyRisk(project_id),
     total_feedback        |-> Cardinality(FeedbackList(project_id)),
     disagreement_rate     |-> DisagreementRate(FeedbackList(project_id)),
     similarity_clarity    |-> SimilarityClarity(project_id)]

\* the notes list starts from the stored snapshot's notes instead of empty
PreliminaryNotes_Accumulating(in) ==
    (IF confidence_calibrations # <<>> THEN confidence_calibrations[1].calibration_notes ELSE <<>>)
    \o (IF in.is_restricted_context THEN <<NOTE_PATENT_CONTEXT>> ELSE <<>>)
    \o (IF in.evidence_count < EVIDENCE_COUNT_LOW_THRESHOLD THEN <<NOTE_LOW_EVIDENCE>> ELSE <<>>)

\* the notes appended before the rules are applied, in the code's order
PreliminaryNotes(in) ==
    (IF in.is_restricted_context THEN <<NOTE_PATENT_CONTEXT>> ELSE <<>>)
    \o (IF in.evidence_count < EVIDENCE_COUNT_LOW_THRESHOLD THEN <<NOTE_LOW_EVIDENCE>> ELSE <<>>)
    \o (IF in.novelty_risk = "RED" THEN <<NOTE_NOVELTY_RED>> ELSE <<>>)
    \o (IF in.total_feedback = 0 THEN <<NOTE_NO_FEEDBACK>> ELSE <<>>)
    \o (IF HighDisagreement(in.disagreement_rate) THEN <<NOTE_HIGH_DISAGREEMENT>> ELSE <<>>)
    \o (IF 0 < in.similarity_clarity /\ in.similarity_clarity < SIMILARITY_CLARITY_THRESHOLD
        THEN <<NOTE_LOW_SIMILARITY_CLARITY>> ELSE <<>>)

\* calculate_confidence(db, project_id) -> CalibrationResult
CalculateConfidence(project_id) ==
    IF project_id \notin DOMAIN projects
    THEN [confidence_level |-> "LOW",
          human_review_recommended |-> TRUE,
          disagreement_flag |-> FALSE,
          calibration_notes |-> <<"Project not found">>,
          metrics |-> [k \in {} |-> 0]]
    ELSE LET in == CalibrationInputs(project_id)
             rule == ApplyRules(in.novelty_risk, in.evidence_count,
                                in.disagreement_rate, in.is_restricted_context)
             high_disagreement == HighDisagreement(in.disagreement_rate)
         IN  [confidence_level |-> rule[1],
              human_review_recommended |->
                  HumanReviewRecommended(rule[1], in.is_restricted_context,
                                         high_disagreement, in.novelty_risk),
              disagreement_flag |-> high_disagreement,
              calibration_notes |-> PreliminaryNotes(in) \o rule[2],
              metrics |-> [evidence_count |-> in.evidence_count,
                           novelty_risk |-> in.novelty_risk,
                           total_feedback |-> in.total_feedback,
                           disagreement_rate |-> RoundMilli(in.disagreement_rate[1], in.disagreement_rate[2]),
                           similarity_clarity |-> in.similarity_clarity]]

\* int(metrics["disagreement_rate"] * metrics["total_feedback"]) with the rate in 1/1000
DisagreementCountFromMetrics(metrics) ==
    (DictGet(metrics, "disagreement_rate", 0) * DictGet(metrics, "total_feedback", 0)) \div 1000

\* the row get_or_create_calibration updates or inserts
ExistingCalibration(project_id) ==
    {i \in DOMAIN confidence_calibrations : confidence_calibrations[i].project_id = project_id}

UpdatedCalibration(existing, result) ==
    [existing EXCEPT
        !.confidence_level = result.confidence_level,
        !.human_review_recommended = result.human_review_recommended,
        !.disagreement_flag = result.disagreement_flag,
        !.calibration_notes = result.calibration_notes,
        !.total_feedback_count = DictGet(result.metrics, "total_feedback", 0),
        !.disagreement_count = DisagreementCountFromMetrics(result.metrics),
        !.evidence_count = DictGet(result.metrics, "evidence_count", 0)]

NewCalibration(project_id, result) ==
    [project_id |-> project_id,
     confidence_level |-> result.confidence_level,
     human_review_recommended |-> result.human_review_recommended,
     disagreement_flag |-> result.disagreement_flag,
     calibration_notes |-> result.calibration_notes,
     total_feedback_count |-> DictGet(result.metrics, "total_feedback", 0),
     disagreement_count |-> 0,
     agreement_count |-> 0,
     evidence_count |-> DictGet(result.metrics, "evidence_count", 0)]

\* get_or_create_calibration: the table after the upsert
GetOrCreateCalibration(project_id, result) ==
    LET existing == ExistingCalibration(project_id)
    IN  IF existing # {}
        THEN LET first == CHOOSE i \in existing : \A j \in existing : i <= j
             IN  [confidence_calibrations EXCEPT ![first] = UpdatedCalibration(@, result)]
        ELSE Append(confidence_calibrations, NewCalibration(project_id, result))

\* ------------------------------------------------------------ the database
NoResponse == [op |-> "none", project_id |-> 0, status |-> 0]

\* the worker threads that serve requests; a thread without a request is idle
Requests == {"r1", "r2"}
Idle == [op |-> "none"]
NoRequests == [r \in Requests |-> Idle]

\* the AnalysisState row of a new project (column defaults of models.py)
NewAnalysisState ==
    [novelty_risk |-> "UNKNOWN", similarity_computed |-> FALSE,
     max_similarity_score |-> None, top_evidence_id |-> None]

Repeat(row, n) == [i \in 1..n |-> row]

FeedbackRow(project_id, output_id, feedback_type) ==
    [output_id |-> output_id, output_type |-> "CLAIM",
     project_id |-> project_id, feedback_type |-> feedback_type]

\* a score that classifies a paper at the given risk level
ScoreOfRisk(risk) ==
    CASE risk = "GREEN" -> 3000
      [] risk = "YELLOW" -> 6000
      [] risk = "RED" -> 9000

\* ------------------------------------------------------ request handlers
\* GET /projects/{project_id}/confidence: get_project_confidence
GetProjectConfidence(project_id) ==
    LET result == CalculateConfidence(project_id)
    IN  /\ confidence_calibrations' = GetOrCreateCalibration(project_id, result)
        /\ response' = [op |-> "get_project_confidence",
                        project_id |-> project_id,
                        status |-> 200,
                        result |-> result,
                        inputs |-> IF project_id \in DOMAIN projects
                                   THEN CalibrationInputs(project_id)
                                   ELSE None]
            /\ UNCHANGED <<requests, compliance_mode, audit_logs_enabled, projects, analysis_states,
                       candidate_evidence, similarity_scores, user_feedback,
                       audit_logs, draft_versions, claim_drafts>>

\* get_or_create_calibration as the steps of one request among concurrent
\* ones: the result is calculated, the stored row is looked up (0: none), and
\* the update or the new row becomes visible at db.commit()
GetOrCreateCalibrationBegin(r, project_id) ==
    /\ requests[r] = Idle
    /\ requests' = [requests EXCEPT ![r] =
           [op |-> "get_project_confidence", project_id |-> project_id,
            result |-> CalculateConfidence(project_id), looked_up |-> FALSE, existing |-> 0]]
    /\ UNCHANGED <<compliance_mode, audit_logs_enabled, projects, analysis_states, candidate_evidence,
                   similarity_scores, user_feedback, confidence_calibrations, audit_logs,
                   draft_versions, claim_drafts, response>>

GetOrCreateCalibrationLookup(r) ==
    /\ requests[r].op = "get_project_confidence"
    /\ ~requests[r].looked_up
    /\ LET existing == ExistingCalibration(requests[r].project_id)
           first == IF existing = {} THEN 0 ELSE CHOOSE i \in existing : \A j \in existing : i <= j
       IN  requests' = [requests EXCEPT ![r].looked_up = TRUE, ![r].existing = first]
    /\ UNCHANGED <<compliance_mode, audit_logs_enabled, projects, analysis_states, candidate_evidence,
                   similarity_scores, user_feedback, confidence_calibrations, audit_logs,
                   draft_versions, claim_drafts, response>>

GetOrCreateCalibrationCommit(r) ==
    /\ requests[r].op = "get_project_confidence"
    /\ requests[r].looked_up
    /\ LET request == requests[r]
       IN  /\ confidence_calibrations' =
                 IF request.existing # 0
                 THEN [confidence_calibrations EXCEPT
                          ![request.existing] = UpdatedCalibration(@, request.result)]
                 ELSE Append(confidence_calibrations,
                             NewCalibration(request.project_id, request.result))
           /\ response' = [op |-> "get_project_confidence", project_id |-> request.project_id,
                           status |-> 200, result |-> request.result, inputs |-> None]
    /\ requests' = [requests EXCEPT ![r] = Idle]
    /\ UNCHANGED <<compliance_mode, audit_logs_enabled, projects, analysis_states,
                   candidate_evidence, similarity_scores, user_feedback,
                   audit_logs, draft_versions, claim_drafts>>

\* ------------------------------------------- similarity_engine (main.py callers)
\* classify_novelty_risk(max_score, evidence_type): inclusive thresholds per kind
ClassifyNoveltyRisk(score, evidence_type) ==
    LET red == IF evidence_type = "patent" THEN patent_red_threshold ELSE research_red_threshold
        yellow == IF evidence_type = "patent" THEN patent_yellow_threshold ELSE research_yellow_threshold
    IN  IF score >= red THEN "RED"
        ELSE IF score >= yellow THEN "YELLOW"
        ELSE "GREEN"

\* the stored scores s for which int((s / 10000.0) * 10000) is s - 1 in double
\* arithmetic (every other score in 0..10000 comes back unchanged)
TruncatedScores ==
    {3, 6, 12, 24, 29, 48, 58, 93, 96, 113, 116, 163, 169, 186, 192, 209,
     215, 226, 232, 249, 255, 321, 326, 338, 355, 372, 384, 389, 401, 418, 430, 435,
     447, 452, 464, 481, 493, 498, 510, 642, 647, 652, 676, 681, 705, 710, 715, 739,
     744, 768, 773, 778, 797, 802, 807, 831, 836, 841, 860, 865, 870, 894, 899, 904,
     923, 928, 933, 957, 962, 967, 986, 991, 996, 1020, 1284, 1289, 1294, 1299, 1304, 1309,
     1347, 1352, 1357, 1362, 1367, 1410, 1415, 1420, 1425, 1430, 1473, 1478, 1483, 1488, 1493, 1536,
     1541, 1546, 1551, 1556, 1594, 1599, 1604, 1609, 1614, 1619, 1657, 1662, 1667, 1672, 1677, 1682,
     1720, 1725, 1730, 1735, 1740, 1745, 1783, 1788, 1793, 1798, 1803, 1808, 1846, 1851, 1856, 1861,
     1866, 1871, 1909, 1914, 1919, 1924, 1929, 1934, 1972, 1977, 1982, 1987, 1992, 2035, 2040, 2045,
     2563, 2568, 2573, 2578, 2583, 2588, 2593, 2598, 2603, 2608, 2613, 2618, 2689, 2694, 2699, 2704,
     2709, 2714, 2719, 2724, 2729, 2734, 2739, 2815, 2820, 2825, 2830, 2835, 2840, 2845, 2850, 2855,
     2860, 2865, 2941, 2946, 2951, 2956, 2961, 2966, 2971, 2976, 2981, 2986, 2991, 3067, 3072, 3077,
     3082, 3087, 3092, 3097, 3102, 3107, 3112, 3117, 3188, 3193, 3198, 3203, 3208, 3213, 3218, 3223,
     3228, 3233, 3238, 3243, 3314, 3319, 3324, 3329, 3334, 3339, 3344, 3349, 3354, 3359, 3364, 3440,
     3445, 3450, 3455, 3460, 3465, 3470, 3475, 3480, 3485, 3490, 3566, 3571, 3576, 3581, 3586, 3591,
     3596, 3601, 3606, 3611, 3616, 3692, 3697, 3702, 3707, 3712, 3717, 3722, 3727, 3732, 3737, 3742,
     3813, 3818, 3823, 3828, 3833, 3838, 3843, 3848, 3853, 3858, 3863, 3868, 3939, 3944, 3949, 3954,
     3959, 3964, 3969, 3974, 3979, 3984, 3989, 4065, 4070, 4075, 4080, 4085, 4090, 4095, 5005, 5015,
     5025, 5035, 5045, 5055, 5065, 5075, 5085, 5095, 5105, 5126, 5136, 5146, 5156, 5166, 5176, 5186,
     5196, 5206, 5216, 5226, 5236, 5257, 5267, 5277, 5287, 5297, 5307, 5317, 5327, 5337, 5347, 5357,
     5378, 5388, 5398, 5408, 5418, 5428, 5438, 5448, 5458, 5468, 5478, 5509, 5519, 5529, 5539, 5549,
     5559, 5569, 5579, 5589, 5599, 5609, 5630, 5640, 5650, 5660, 5670, 5680, 5690, 5700, 5710, 5720,
     5730, 5751, 5761, 5771, 5781, 5791, 5801, 5811, 5821, 5831, 5841, 5851, 5861, 5882, 5892, 5902,
     5912, 5922, 5932, 5942, 5952, 5962, 5972, 5982, 6003, 6013, 6023, 6033, 6043, 6053, 6063, 6073,
     6083, 6093, 6103, 6134, 6144, 6154, 6164, 6174, 6184, 6194, 6204, 6214, 6224, 6234, 6255, 6265,
     6275, 6285, 6295, 6305, 6315, 6325, 6335, 6345, 6355, 6376, 6386, 6396, 6406, 6416, 6426, 6436,
     6446, 6456, 6466, 6476, 6486, 6507, 6517, 6527, 6537, 6547, 6557, 6567, 6577, 6587, 6597, 6607,
     6628, 6638, 6648, 6658, 6668, 6678, 6688, 6698, 6708, 6718, 6728, 6759, 6769, 6779, 6789, 6799,
     6809, 6819, 6829, 6839, 6849, 6859, 6880, 6890, 6900, 6910, 6920, 6930, 6940, 6950, 6960, 6970,
     6980, 7001, 7011, 7021, 7031, 7041, 7051, 7061, 7071, 7081, 7091, 7101, 7111, 7132, 7142, 7152,
     7162, 7172, 7182, 7192, 7202, 7212, 7222, 7232, 7253, 7263, 7273, 7283, 7293, 7303, 7313, 7323,
     7333, 7343, 7353, 7384, 7394, 7404, 7414, 7424, 7434, 7444, 7454, 7464, 7474, 7484, 7505, 7515,
     7525, 7535, 7545, 7555, 7565, 7575, 7585, 7595, 7605, 7626, 7636, 7646, 7656, 7666, 7676, 7686,
     7696, 7706, 7716, 7726, 7736, 7757, 7767, 7777, 7787, 7797, 7807, 7817, 7827, 7837, 7847, 7857,
     7878, 7888, 7898, 7908, 7918, 7928, 7938, 7948, 7958, 7968, 7978, 8009, 8019, 8029, 8039, 8049,
     8059, 8069, 8079, 8089, 8099, 8109, 8130, 8140, 8150, 8160, 8170, 8180, 8190}

\* int(score_float * 10000) of a stored score
IntOfScoreFloat(score) == IF score \in TruncatedScores THEN score - 1 ELSE score

\* the row ids of the project's similarity scores
ProjectScores(project_id) ==
    {i \in DOMAIN similarity_scores : similarity_scores[i].project_id = project_id}

\* the kind's risk classified with the research thresholds whatever the kind
KindRisk_PaperThresholds(project_id, evidence_type) ==
    LET rows == {i \in DOMAIN similarity_scores :
                    similarity_scores[i].project_id = project_id
                    /\ similarity_scores[i].evidence_type = evidence_type}
    IN  IF rows = {} THEN "UNKNOWN"
        ELSE ClassifyNoveltyRisk(Max({similarity_scores[i].score : i \in rows}), "paper")

\* the risk of one evidence kind: classified from the kind's maximum score
KindRisk(project_id, evidence_type) ==
    LET rows == {i \in ProjectScores(project_id) : similarity_scores[i].evidence_type = evidence_type}
    IN  IF rows = {} THEN "UNKNOWN"
        ELSE ClassifyNoveltyRisk(Max({similarity_scores[i].score : i \in rows}), evidence_type)

\* max(scores, key=lambda s: s.score): a row holding the maximum score; the
\* query has no ORDER BY, so which of several equal rows comes first is open
TopScores(project_id) ==
    {i \in ProjectScores(project_id) :
        \A j \in ProjectScores(project_id) : similarity_scores[j].score <= similarity_scores[i].score}

\* overall_risk = classify_novelty_risk(max_score, top_score.evidence_type)
OverallRisk(project_id, top) ==
    ClassifyNoveltyRisk(Max({similarity_scores[i].score : i \in ProjectScores(project_id)}),
                        similarity_scores[top].evidence_type)

\* POST /projects: create_project.  crud.create_project stores the project
\* with its analysis state; building the audit metadata then reads
\* db_project.title, an attribute the Project model does not have, so the
\* handler fails after the commit and log_action is not reached.
CreateProject(type, has_idea_text) ==
    /\ Len(projects) < MaxProjects
    /\ projects' = Append(projects, [type |-> type, has_idea_text |-> has_idea_text])
    /\ analysis_states' = (Len(projects) + 1 :> NewAnalysisState) @@ analysis_states
    /\ response' = [op |-> "create_project", project_id |-> Len(projects) + 1, status |-> 500,
                    committed |-> TRUE]
    /\ UNCHANGED <<requests, compliance_mode, audit_logs_enabled, candidate_evidence, similarity_scores,
                   user_feedback, confidence_calibrations, audit_logs, draft_versions, claim_drafts>>

\* POST /projects/{id}/retrieve-papers and /retrieve-patents: the candidates the
\* search collaborator returned are stored as evidence rows of the kind
RetrieveEvidence(project_id, source_type, candidates) ==
    /\ Len(candidate_evidence) + candidates <= MaxEvidence
    /\ IF project_id \notin DOMAIN projects
       THEN /\ response' = [op |-> "retrieve_evidence", project_id |-> project_id, status |-> 404]
            /\ UNCHANGED candidate_evidence
       ELSE /\ candidate_evidence' = candidate_evidence
                   \o Repeat([project_id |-> project_id, source_type |-> source_type], candidates)
            /\ response' = [op |-> "retrieve_evidence", project_id |-> project_id, status |-> 200]
    /\ UNCHANGED <<requests, compliance_mode, audit_logs_enabled, projects, analysis_states, similarity_scores,
                   user_feedback, confidence_calibrations, audit_logs, draft_versions, claim_drafts>>

\* the score table after the upsert loop over the evidence ids in `todo`
RECURSIVE UpsertScores(_, _, _, _)
UpsertScores(table, project_id, cosine, todo) ==
    IF todo = {} THEN table
    ELSE LET ev == CHOOSE e \in todo : \A f \in todo : e <= f
             existing == {i \in DOMAIN table :
                             table[i].project_id = project_id /\ table[i].evidence_id = ev}
             next == IF existing # {}
                     THEN [table EXCEPT ![CHOOSE i \in existing : \A j \in existing : i <= j].score = cosine[ev]]
                     ELSE Append(table, [project_id |-> project_id, evidence_id |-> ev,
                                         score |-> cosine[ev],
                                         evidence_type |-> candidate_evidence[ev].source_type])
         IN  UpsertScores(next, project_id, cosine, todo \ {ev})

\* POST /projects/{id}/compute-similarity: compute_similarity.  `cosine` maps
\* each evidence row of the project that has an embedding to
\* int(cosine_similarity * 10000) of the stored embeddings.
ComputeSimilarity(project_id, idea_embedded, cosine) ==
    /\ IF project_id \notin DOMAIN projects
       THEN /\ response' = [op |-> "compute_similarity", project_id |-> project_id, status |-> 404]
            /\ UNCHANGED <<similarity_scores, analysis_states>>
       ELSE IF ~idea_embedded
       THEN /\ response' = [op |-> "compute_similarity", project_id |-> project_id,
                            status |-> 200, success |-> FALSE]
            /\ UNCHANGED <<similarity_scores, analysis_states>>
       ELSE LET max_score == Max({0} \cup {cosine[e] : e \in DOMAIN cosine})
            IN  /\ similarity_scores' = UpsertScores(similarity_scores, project_id, cosine, DOMAIN cosine)
                /\ analysis_states' =
                      IF project_id \in DOMAIN analysis_states
                      THEN [analysis_states EXCEPT ![project_id].similarity_computed = TRUE,
                                                   ![project_id].max_similarity_score = max_score]
                      ELSE analysis_states
                /\ response' = [op |-> "compute_similarity", project_id |-> project_id,
                                status |-> 200, success |-> TRUE]
    /\ UNCHANGED <<requests, compliance_mode, audit_logs_enabled, projects, candidate_evidence,
                   user_feedback, confidence_calibrations, audit_logs, draft_versions, claim_drafts>>

\* compute_similarity as the steps of one request among concurrent ones.
\* Every query of the loop reads the committed table; the score rows the
\* request adds or changes become visible to other requests at db.commit().
\* A request keeps, per evidence id, the row it found (0: none, a new row
\* will be added).

\* the handler up to the evidence loop: the project, the idea embedding and
\* the project's evidence with embeddings are read
ComputeSimilarityBegin(r, project_id, idea_embedded, cosine) ==
    /\ requests[r] = Idle
    /\ IF project_id \notin DOMAIN projects
       THEN /\ response' = [op |-> "compute_similarity", project_id |-> project_id, status |-> 404]
            /\ UNCHANGED requests
       ELSE IF ~idea_embedded
       THEN /\ response' = [op |-> "compute_similarity", project_id |-> project_id,
                            status |-> 200, success |-> FALSE]
            /\ UNCHANGED requests
       ELSE /\ requests' = [requests EXCEPT ![r] =
                   [op |-> "compute_similarity", project_id |-> project_id, cosine |-> cosine,
                    todo |-> DOMAIN cosine, existing_score |-> [e \in {} |-> 0]]]
            /\ UNCHANGED response
    /\ UNCHANGED <<compliance_mode, audit_logs_enabled, projects, analysis_states, candidate_evidence,
                   similarity_scores, user_feedback, confidence_calibrations, audit_logs,
                   draft_versions, claim_drafts>>

\* one turn of the loop: the query for the existing score of the next evidence
ComputeSimilarityLookup(r) ==
    /\ requests[r].op = "compute_similarity"
    /\ requests[r].todo # {}
    /\ LET ev == CHOOSE e \in requests[r].todo : \A f \in requests[r].todo : e <= f
           existing == {i \in DOMAIN similarity_scores :
                           /\ similarity_scores[i].project_id = requests[r].project_id
                           /\ similarity_scores[i].evidence_id = ev}
           first == IF existing = {} THEN 0 ELSE CHOOSE i \in existing : \A j \in existing : i <= j
       IN  requests' = [requests EXCEPT ![r].todo = @ \ {ev},
                                        ![r].existing_score = (ev :> first) @@ @]
    /\ UNCHANGED <<compliance_mode, audit_logs_enabled, projects, analysis_states, candidate_evidence,
                   similarity_scores, user_feedback, confidence_calibrations, audit_logs,
                   draft_versions, claim_drafts, response>>

\* the score table after the request's rows are written: found rows are
\* updated, the others are added
RECURSIVE WriteScores(_, _, _)
WriteScores(table, request, todo) ==
    IF todo = {} THEN table
    ELSE LET ev == CHOOSE e \in todo : \A f \in todo : e <= f
             next == IF request.existing_score[ev] # 0
                     THEN [table EXCEPT ![request.existing_score[ev]].score = request.cosine[ev]]
                     ELSE Append(table, [project_id |-> request.project_id, evidence_id |-> ev,
                                         score |-> request.cosine[ev],
                                         evidence_type |-> candidate_evidence[ev].source_type])
         IN  WriteScores(next, request, todo \ {ev})

\* the end of the handler: the analysis state is updated and db.commit()
\* makes the request's writes visible
ComputeSimilarityCommit(r) ==
    /\ requests[r].op = "compute_similarity"
    /\ requests[r].todo = {}
    /\ LET request == requests[r]
           max_score == Max({0} \cup {request.cosine[e] : e \in DOMAIN request.cosine})
       IN  /\ similarity_scores' = WriteScores(similarity_scores, request, DOMAIN request.cosine)
           /\ analysis_states' =
                 IF request.project_id \in DOMAIN analysis_states
                 THEN [analysis_states EXCEPT ![request.project_id].similarity_computed = TRUE,
                                              ![request.project_id].max_similarity_score = max_score]
                 ELSE analysis_states
           /\ response' = [op |-> "compute_similarity", project_id |-> request.project_id,
                           status |-> 200, success |-> TRUE]
    /\ requests' = [requests EXCEPT ![r] = Idle]
    /\ UNCHANGED <<compliance_mode, audit_logs_enabled, projects, candidate_evidence,
                   user_feedback, confidence_calibrations, audit_logs, draft_versions, claim_drafts>>

\* GET /projects/{id}/novelty-risk: get_novelty_risk
GetNoveltyRisk(project_id) ==
    /\ IF project_id \notin DOMAIN projects
       THEN /\ response' = [op |-> "get_novelty_risk", project_id |-> project_id, status |-> 404]
            /\ UNCHANGED analysis_states
       ELSE IF ProjectScores(project_id) = {}
       THEN /\ analysis_states' =
                  IF project_id \in DOMAIN analysis_states
                  THEN [analysis_states EXCEPT ![project_id].novelty_risk = "UNKNOWN"]
                  ELSE analysis_states
            /\ response' = [op |-> "get_novelty_risk", project_id |-> project_id, status |-> 200,
                            novelty_risk |-> "UNKNOWN", research_risk |-> "UNKNOWN",
                            patent_risk |-> "UNKNOWN", top_evidence_id |-> None]
       ELSE \E top \in TopScores(project_id) :
            LET overall_risk == OverallRisk(project_id, top)
            IN  /\ analysis_states' =
                      IF project_id \in DOMAIN analysis_states
                      THEN [analysis_states EXCEPT
                               ![project_id].novelty_risk = overall_risk,
                               ![project_id].max_similarity_score = IntOfScoreFloat(similarity_scores[top].score),
                               ![project_id].top_evidence_id = similarity_scores[top].evidence_id]
                      ELSE analysis_states
                /\ response' = [op |-> "get_novelty_risk", project_id |-> project_id, status |-> 200,
                                novelty_risk |-> overall_risk,
                                research_risk |-> KindRisk(project_id, "paper"),
                                patent_risk |-> KindRisk(project_id, "patent"),
                                top_evidence_id |-> similarity_scores[top].evidence_id]
    /\ UNCHANGED <<requests, compliance_mode, audit_logs_enabled, projects, candidate_evidence, similarity_scores,
                   user_feedback, confidence_calibrations, audit_logs, draft_versions, claim_drafts>>

\* Databases on which calculate_confidence is evaluated: one project of any
\* type, n evidence rows, a stored novelty verdict (with the score row it
\* was derived from), and feedback of every kind in every proportion.
InitCalc ==
    /\ compliance_mode = FALSE
    /\ audit_logs_enabled = TRUE
    /\ \E t \in ProjectType : projects = <<[type |-> t, has_idea_text |-> TRUE]>>
    /\ \E n \in 0..MaxCalcEvidence, risk \in NoveltyRiskLevel :
          /\ risk # "UNKNOWN" => n >= 1
          /\ candidate_evidence = Repeat([project_id |-> 1, source_type |-> "paper"], n)
          /\ analysis_states =
                (1 :> IF risk = "UNKNOWN" THEN NewAnalysisState
                      ELSE [novelty_risk |-> risk, similarity_computed |-> TRUE,
                            max_similarity_score |-> ScoreOfRisk(risk), top_evidence_id |-> 1])
          /\ similarity_scores =
                IF risk = "UNKNOWN" THEN <<>>
                ELSE <<[project_id |-> 1, evidence_id |-> 1,
                        score |-> ScoreOfRisk(risk), evidence_type |-> "paper"]>>
    /\ \E d \in 0..MaxDisagree, a \in 0..MaxAgree,
          others \in SUBSET {"HELPFUL", "NOT_HELPFUL", "NEEDS_REVISION", "NEEDS_EXPERT"} :
          user_feedback =
              Repeat(FeedbackRow(1, "o1", "DISAGREE"), d)
              \o Repeat(FeedbackRow(1, "o1", "AGREE"), a)
              \o (IF "HELPFUL" \in others THEN <<FeedbackRow(1, "o1", "HELPFUL")>> ELSE <<>>)
              \o (IF "NOT_HELPFUL" \in others THEN <<FeedbackRow(1, "o1", "NOT_HELPFUL")>> ELSE <<>>)
              \o (IF "NEEDS_REVISION" \in others THEN <<FeedbackRow(1, "o1", "NEEDS_REVISION")>> ELSE <<>>)
              \o (IF "NEEDS_EXPERT" \in others THEN <<FeedbackRow(1, "o1", "NEEDS_EXPERT")>> ELSE <<>>)
    /\ confidence_calibrations = <<>>
    /\ audit_logs = <<>>
    /\ draft_versions = <<>>
    /\ claim_drafts = <<>>
    /\ requests = NoRequests
    /\ response = NoResponse

NextCalc == GetProjectConfidence(1)

SpecCalc == InitCalc /\ [][NextCalc]_vars


\* ------------------------------------------------- feedback_service.py
\* replaces the stored row of the same output and kind instead of adding one
InsertFeedback_Collapse(table, row) ==
    LET same == {i \in DOMAIN table : table[i].output_id = row.output_id}
    IN  IF same = {} THEN Append(table, row)
        ELSE [table EXCEPT ![CHOOSE i \in same : \A j \in same : j <= i] = row]

\* db.add(feedback); db.commit(): a new row, id = its index
InsertFeedback(table, row) == Append(table, row)

\* the output type is stored as given, without validation
SubmitFeedbackResult_UnvalidatedOutput(output_id, output_type, project_id, feedback_type, commit_ok) ==
    IF feedback_type \notin FeedbackType THEN <<user_feedback, FALSE, 0>>
    ELSE IF ~commit_ok THEN <<user_feedback, FALSE, 0>>
    ELSE LET table == InsertFeedback(user_feedback,
                          [output_id |-> output_id, output_type |-> output_type,
                           project_id |-> project_id, feedback_type |-> feedback_type])
         IN  <<table, TRUE, Len(table)>>

\* feedback_service.submit_feedback: <<table after the call, success, feedback_id>>
SubmitFeedbackResult(output_id, output_type, project_id, feedback_type, commit_ok) ==
    IF feedback_type \notin FeedbackType THEN <<user_feedback, FALSE, 0>>
    ELSE IF output_type \notin OutputType THEN <<user_feedback, FALSE, 0>>
    ELSE IF ~commit_ok THEN <<user_feedback, FALSE, 0>>
    ELSE LET table == InsertFeedback(user_feedback,
                          [output_id |-> output_id, output_type |-> output_type,
                           project_id |-> project_id, feedback_type |-> feedback_type])
         IN  <<table, TRUE, Len(table)>>

\* POST /feedback: submit_feedback
SubmitFeedback(output_id, output_type, project_id, feedback_type, commit_ok) ==
    LET result == SubmitFeedbackResult(output_id, output_type, project_id, feedback_type, commit_ok)
    IN  /\ Len(user_feedback) < MaxFeedback
        /\ user_feedback' = result[1]
        /\ response' = IF result[2]
                       THEN [op |-> "submit_feedback", project_id |-> project_id, status |-> 200,
                             output_id |-> output_id, output_type |-> output_type,
                             feedback_type |-> feedback_type,
                             feedback_id |-> result[3]]
                       ELSE [op |-> "submit_feedback", project_id |-> project_id, status |-> 400,
                             output_type |-> output_type, feedback_type |-> feedback_type]
        /\ UNCHANGED <<requests, compliance_mode, audit_logs_enabled, projects, analysis_states,
                       candidate_evidence, similarity_scores, confidence_calibrations,
                       audit_logs, draft_versions, claim_drafts>>

\* submit_feedback as the steps of one request among concurrent ones: the
\* types are validated and the record is built; db.commit() inserts it.
\* `seen` is the number of stored records when the request began.
SubmitFeedbackBegin(r, output_id, output_type, project_id, feedback_type) ==
    /\ requests[r] = Idle
    /\ IF feedback_type \notin FeedbackType \/ output_type \notin OutputType
       THEN /\ response' = [op |-> "submit_feedback", project_id |-> project_id, status |-> 400,
                            output_type |-> output_type, feedback_type |-> feedback_type]
            /\ UNCHANGED requests
       ELSE /\ requests' = [requests EXCEPT ![r] =
                   [op |-> "submit_feedback", seen |-> Len(user_feedback),
                    row |-> [output_id |-> output_id, output_type |-> output_type,
                             project_id |-> project_id, feedback_type |-> feedback_type]]]
            /\ UNCHANGED response
    /\ UNCHANGED <<compliance_mode, audit_logs_enabled, projects, analysis_states, candidate_evidence,
                   similarity_scores, user_feedback, confidence_calibrations, audit_logs,
                   draft_versions, claim_drafts>>

\* the commit writes the table as the request saw it when it began, plus its row
FeedbackAfterCommit_Snapshot(request) ==
    Append(SubSeq(user_feedback, 1, request.seen), request.row)

\* db.add(feedback); db.commit() of a request: the table after the insert
FeedbackAfterCommit(request) == InsertFeedback(user_feedback, request.row)

\* db.commit() and the response; a failed commit is rolled back
SubmitFeedbackCommit(r, commit_ok) ==
    /\ requests[r].op = "submit_feedback"
    /\ Len(user_feedback) < MaxFeedback
    /\ LET request == requests[r]
       IN  IF commit_ok
           THEN /\ user_feedback' = FeedbackAfterCommit(request)
                /\ response' = [op |-> "submit_feedback", project_id |-> request.row.project_id,
                                status |-> 200, output_id |-> request.row.output_id,
                                output_type |-> request.row.output_type,
                                feedback_type |-> request.row.feedback_type,
                                feedback_id |-> Len(user_feedback'), seen |-> request.seen]
           ELSE /\ UNCHANGED user_feedback
                /\ response' = [op |-> "submit_feedback", project_id |-> request.row.project_id,
                                status |-> 400, output_type |-> request.row.output_type,
                                feedback_type |-> request.row.feedback_type]
    /\ requests' = [requests EXCEPT ![r] = Idle]
    /\ UNCHANGED <<compliance_mode, audit_logs_enabled, projects, analysis_states,
                   candidate_evidence, similarity_scores, confidence_calibrations,
                   audit_logs, draft_versions, claim_drafts>>

\* NOT_HELPFUL records are left out of the numerator
CalculateDisagreementRate_DisagreeOnly(disagree_count, agree_count, not_helpful_count, helpful_count) ==
    LET total == agree_count + helpful_count + disagree_count + not_helpful_count
    IN  IF total = 0 THEN 0 ELSE RoundMilli(disagree_count, total)

\* calculate_disagreement_rate(disagree, agree, not_helpful, helpful), in 1/1000
CalculateDisagreementRate(disagree_count, agree_count, not_helpful_count, helpful_count) ==
    LET total_positive == agree_count + helpful_count
        total_negative == disagree_count + not_helpful_count
        total == total_positive + total_negative
    IN  IF total = 0 THEN 0 ELSE RoundMilli(total_negative, total)

\* feedback_service.get_feedback_for_output over a feedback table
FeedbackSummary(table, output_id) ==
    LET OfKind(kind) == Cardinality({i \in DOMAIN table :
                            table[i].output_id = output_id /\ table[i].feedback_type = kind})
    IN  [output_id |-> output_id,
         total_count |-> Cardinality({i \in DOMAIN table : table[i].output_id = output_id}),
         helpful_count |-> OfKind("HELPFUL"),
         not_helpful_count |-> OfKind("NOT_HELPFUL"),
         agree_count |-> OfKind("AGREE"),
         disagree_count |-> OfKind("DISAGREE"),
         needs_revision_count |-> OfKind("NEEDS_REVISION"),
         needs_expert_count |-> OfKind("NEEDS_EXPERT"),
         disagreement_rate |-> CalculateDisagreementRate(OfKind("DISAGREE"), OfKind("AGREE"),
                                                         OfKind("NOT_HELPFUL"), OfKind("HELPFUL"))]

\* GET /feedback/{output_id}: get_feedback_for_output
GetFeedbackForOutput(output_id) ==
    /\ response' = [op |-> "get_feedback_for_output", project_id |-> 0, status |-> 200,
                    summary |-> FeedbackSummary(user_feedback, output_id)]
    /\ UNCHANGED <<requests, compliance_mode, audit_logs_enabled, projects, analysis_states,
                   candidate_evidence, similarity_scores, user_feedback, confidence_calibrations,
                   audit_logs, draft_versions, claim_drafts>>

\* ---------------------------------------------------- audit_service.py
\* a rotating ledger: adding an entry drops the oldest one
InsertAuditLog_Rotate(table, row) ==
    IF table = <<>> THEN <<row>> ELSE Append(Tail(table), row)

\* db.add(log_entry); db.commit()
InsertAuditLog(table, row) == Append(table, row)

\* an invalid action type is persisted under a generic type, not rejected
LogAction_PersistInvalid(table, action_type, entity_type, entity_id, user_id, write_ok) ==
    IF ~audit_logs_enabled THEN <<table, TRUE>>
    ELSE IF ~write_ok THEN <<table, FALSE>>
    ELSE <<Append(table, [action_type |-> IF action_type \in ActionType
                                          THEN action_type ELSE "COMPLIANCE_CHECK",
                          entity_type |-> entity_type,
                          entity_id |-> entity_id,
                          user_id |-> IF user_id = None THEN "system" ELSE user_id,
                          compliance_mode_active |-> compliance_mode]),
           action_type \in ActionType>>

\* log_action(db, action_type, entity_type, entity_id, user_id): <<table, returned bool>>.
\* write_ok is FALSE when db.add/db.commit raises: the exception is caught
\* and False is returned.
LogAction(table, action_type, entity_type, entity_id, user_id, write_ok) ==
    IF ~audit_logs_enabled THEN <<table, TRUE>>
    ELSE IF action_type \notin ActionType THEN <<table, FALSE>>
    ELSE IF ~write_ok THEN <<table, FALSE>>
    ELSE <<InsertAuditLog(table, [action_type |-> action_type,
                                  entity_type |-> entity_type,
                                  entity_id |-> entity_id,
                                  user_id |-> IF user_id = None THEN "system" ELSE user_id,
                                  compliance_mode_active |-> compliance_mode]),
           TRUE>>

\* a caller of log_action outside the request handlers: the startup hook of
\* main.py (SYSTEM_STARTUP) and scripts such as debug_audit.py
LogActionCall(action_type, entity_type, entity_id, user_id, write_ok) ==
    LET result == LogAction(audit_logs, action_type, entity_type, entity_id, user_id, write_ok)
    IN  /\ Len(audit_logs) < MaxAudit
        /\ audit_logs' = result[1]
        /\ response' = [op |-> "log_action", project_id |-> 0, status |-> 0,
                        action_type |-> action_type, returned |-> result[2]]
        /\ UNCHANGED <<requests, compliance_mode, audit_logs_enabled, projects, analysis_states,
                       candidate_evidence, similarity_scores, user_feedback,
                       confidence_calibrations, draft_versions, claim_drafts>>

\* the default limits of the two queries
DEFAULT_TRAIL_LIMIT == 100
DEFAULT_SYSTEM_LOG_LIMIT == 50

\* order_by(created_at.desc()).limit(limit): the newest `limit` ids of a set
\* of rows, newest first (created_at grows with the row id)
RECURSIVE NewestFirst(_, _)
NewestFirst(rows, limit) ==
    IF rows = {} \/ limit = 0 THEN <<>>
    ELSE <<Max(rows)>> \o NewestFirst(rows \ {Max(rows)}, limit - 1)

\* the result lists the oldest entries first
ProjectAuditTrail_OldestFirst(table, project_id, limit) ==
    LET rows == {i \in DOMAIN table :
                    table[i].entity_type = "Project" /\ table[i].entity_id = project_id}
        newest == NewestFirst(rows, limit)
    IN  [k \in DOMAIN newest |-> newest[Len(newest) + 1 - k]]

\* audit_service.get_project_audit_trail(db, project_id, limit): the ids of
\* the entries with entity_type "Project" and the project's id
ProjectAuditTrail(table, project_id, limit) ==
    LET rows == {i \in DOMAIN table :
                    table[i].entity_type = "Project" /\ table[i].entity_id = project_id}
    IN  NewestFirst(rows, limit)

\* audit_service.get_recent_system_logs(db, limit)
RecentSystemLogs(table, limit) == NewestFirst(DOMAIN table, limit)

\* a call of get_project_audit_trail with an explicit limit
ProjectAuditTrailQuery(project_id, limit) ==
    /\ response' = [op |-> "get_project_audit_trail", project_id |-> project_id, status |-> 200,
                    limit |-> limit,
                    logs |-> ProjectAuditTrail(audit_logs, project_id, limit)]
    /\ UNCHANGED <<requests, compliance_mode, audit_logs_enabled, projects, analysis_states,
                   candidate_evidence, similarity_scores, user_feedback, confidence_calibrations,
                   audit_logs, draft_versions, claim_drafts>>

\* GET /projects/{id}/audit: get_project_audit_trail, with the default limit
GetProjectAuditTrail(project_id) == ProjectAuditTrailQuery(project_id, DEFAULT_TRAIL_LIMIT)

\* a call of get_recent_system_logs
GetRecentSystemLogs(limit) ==
    /\ response' = [op |-> "get_recent_system_logs", project_id |-> 0, status |-> 200,
                    limit |-> limit,
                    logs |-> RecentSystemLogs(audit_logs, limit)]
    /\ UNCHANGED <<requests, compliance_mode, audit_logs_enabled, projects, analysis_states,
                   candidate_evidence, similarity_scores, user_feedback, confidence_calibrations,
                   audit_logs, draft_versions, claim_drafts>>

\* the next version number of a versioned table for a project
NextVersion(table, project_id) ==
    LET versions == {table[i].version : i \in {j \in DOMAIN table : table[j].project_id = project_id}}
    IN  IF versions = {} THEN 1 ELSE Max(versions) + 1

\* POST /projects/{id}/draft-optimize: optimize_draft
OptimizeDraft(project_id, llm_success, audit_write_ok) ==
    /\ Len(draft_versions) < MaxDrafts
    /\ IF project_id \notin DOMAIN projects
       THEN /\ response' = [op |-> "optimize_draft", project_id |-> project_id, status |-> 404]
            /\ UNCHANGED <<draft_versions, audit_logs>>
       ELSE IF ~llm_success
       THEN /\ response' = [op |-> "optimize_draft", project_id |-> project_id, status |-> 500]
            /\ UNCHANGED <<draft_versions, audit_logs>>
       ELSE /\ draft_versions' = Append(draft_versions,
                   [project_id |-> project_id, version |-> NextVersion(draft_versions, project_id)])
            /\ audit_logs' = LogAction(audit_logs, "DRAFT_OPTIMIZED", "DraftVersion",
                                       Len(draft_versions) + 1, None, audit_write_ok)[1]
            /\ response' = [op |-> "optimize_draft", project_id |-> project_id, status |-> 200,
                            committed |-> TRUE, gate_consulted |-> {},
                            audit_returned |-> LogAction(audit_logs, "DRAFT_OPTIMIZED", "DraftVersion",
                                                         Len(draft_versions) + 1, None, audit_write_ok)[2]]
    /\ UNCHANGED <<requests, compliance_mode, audit_logs_enabled, projects, analysis_states,
                   candidate_evidence, similarity_scores, user_feedback, confidence_calibrations,
                   claim_drafts>>

\* ----------------------------------------------- compliance_service.py
\* RESTRICTED_FEATURES: feature name -> allowed_in_compliance and reason
RESTRICTED_FEATURES ==
    [PATENT_CLAIM_GENERATION |->
        [allowed_in_compliance |-> FALSE, reason |-> "REASON_PATENT_CLAIM_GENERATION"],
     DRAFT_OPTIMIZATION_CREATIVE |->
        [allowed_in_compliance |-> FALSE, reason |-> "REASON_DRAFT_OPTIMIZATION_CREATIVE"],
     HIGH_RISK_NOVELTY_CHECK |->
        [allowed_in_compliance |-> TRUE, reason |-> "REASON_HIGH_RISK_NOVELTY_CHECK"]]

\* blocks every feature the table lists, whatever allowed_in_compliance says
FeatureBlocked_AnyListed(feature_name) ==
    /\ compliance_mode
    /\ feature_name \in DOMAIN RESTRICTED_FEATURES

\* the gate is left out: nothing is ever blocked
FeatureBlocked_Never(feature_name) == FALSE

\* validate_feature_access raises 403: compliance mode is active and the
\* feature's rule has allowed_in_compliance = False
FeatureBlocked(feature_name) ==
    /\ compliance_mode
    /\ feature_name \in DOMAIN RESTRICTED_FEATURES
    /\ ~RESTRICTED_FEATURES[feature_name].allowed_in_compliance

\* the detail of the 403: "Compliance Restriction: " + rule["reason"]
RestrictionDetail(feature_name) == RESTRICTED_FEATURES[feature_name].reason

\* validate_feature_access(feature_name) called on its own
ValidateFeatureAccess(feature_name) ==
    /\ response' = IF FeatureBlocked(feature_name)
                   THEN [op |-> "validate_feature_access", project_id |-> 0, status |-> 403,
                         feature_name |-> feature_name, detail |-> RestrictionDetail(feature_name)]
                   ELSE [op |-> "validate_feature_access", project_id |-> 0, status |-> 200,
                         feature_name |-> feature_name]
    /\ UNCHANGED <<requests, compliance_mode, audit_logs_enabled, projects, analysis_states,
                   candidate_evidence, similarity_scores, user_feedback, confidence_calibrations,
                   audit_logs, draft_versions, claim_drafts>>

\* the instruction compliance mode forces
CLARITY_INSTRUCTION ==
    "Improve clarity, grammar, and academic tone. Do not add new ideas or change the meaning."

\* compliance mode supplies the instruction only when the user gave none
CheckDraftOptimizationParams_FillEmpty(instruction) ==
    IF compliance_mode /\ instruction = "" THEN CLARITY_INSTRUCTION ELSE instruction

\* check_draft_optimization_params(instruction)
CheckDraftOptimizationParams(instruction) ==
    IF compliance_mode THEN CLARITY_INSTRUCTION ELSE instruction

\* check_draft_optimization_params called on its own
CheckDraftOptimizationParamsCall(instruction) ==
    /\ response' = [op |-> "check_draft_optimization_params", project_id |-> 0, status |-> 0,
                    instruction |-> instruction,
                    returned |-> CheckDraftOptimizationParams(instruction)]
    /\ UNCHANGED <<requests, compliance_mode, audit_logs_enabled, projects, analysis_states,
                   candidate_evidence, similarity_scores, user_feedback, confidence_calibrations,
                   audit_logs, draft_versions, claim_drafts>>

\* POST /projects/{id}/claims/generate: generate_claims.  After the claims are
\* committed the audit metadata reads novelty_risk.value on a plain string,
\* which fails: the handler answers 500 and log_action is not reached.
GenerateClaims(project_id, llm_success) ==
    /\ Len(claim_drafts) < MaxDrafts
    /\ IF project_id \notin DOMAIN projects
       THEN /\ response' = [op |-> "generate_claims", project_id |-> project_id, status |-> 404]
            /\ UNCHANGED claim_drafts
       ELSE IF FeatureBlocked("PATENT_CLAIM_GENERATION")
       THEN /\ response' = [op |-> "generate_claims", project_id |-> project_id, status |-> 403,
                            detail |-> RestrictionDetail("PATENT_CLAIM_GENERATION")]
            /\ UNCHANGED claim_drafts
       ELSE IF projects[project_id].type # "PATENT" \/ ~projects[project_id].has_idea_text
       THEN /\ response' = [op |-> "generate_claims", project_id |-> project_id, status |-> 400]
            /\ UNCHANGED claim_drafts
       ELSE IF ~llm_success
       THEN /\ response' = [op |-> "generate_claims", project_id |-> project_id, status |-> 500]
            /\ UNCHANGED claim_drafts
       ELSE /\ claim_drafts' = Append(claim_drafts,
                   [project_id |-> project_id, version |-> NextVersion(claim_drafts, project_id)])
            /\ response' = [op |-> "generate_claims", project_id |-> project_id, status |-> 500,
                            committed |-> TRUE]
    /\ UNCHANGED <<requests, compliance_mode, audit_logs_enabled, projects, analysis_states,
                   candidate_evidence, similarity_scores, user_feedback, confidence_calibrations,
                   audit_logs, draft_versions>>

\* ------------------------------------------------------- specifications
EmptyDatabase ==
    /\ projects = <<>>
    /\ analysis_states = <<>>
    /\ candidate_evidence = <<>>
    /\ similarity_scores = <<>>
    /\ user_feedback = <<>>
    /\ confidence_calibrations = <<>>
    /\ audit_logs = <<>>
    /\ draft_versions = <<>>
    /\ claim_drafts = <<>>
    /\ requests = NoRequests
    /\ response = NoResponse

\* the service after deployment: the settings are fixed, the database is empty
Init ==
    /\ compliance_mode \in BOOLEAN
    /\ audit_logs_enabled \in BOOLEAN
    /\ EmptyDatabase

\* the deployment with the default settings of config.py
InitDefault ==
    /\ compliance_mode = FALSE
    /\ audit_logs_enabled = TRUE
    /\ EmptyDatabase

\* the evidence rows of a project
ProjectEvidence(project_id) ==
    {e \in DOMAIN candidate_evidence : candidate_evidence[e].project_id = project_id}

\* the similarity and novelty pipeline followed by calibration
NextNovelty ==
    \/ \E type \in {"RESEARCH", "PATENT"} : CreateProject(type, TRUE)
    \/ \E p \in ProjectIds, kind \in {"paper", "patent"}, n \in 1..2 : RetrieveEvidence(p, kind, n)
    \/ \E p \in ProjectIds, idea_embedded \in BOOLEAN :
          \E embedded \in SUBSET ProjectEvidence(p) :
             \E cosine \in [embedded -> ScoreValues] : ComputeSimilarity(p, idea_embedded, cosine)
    \/ \E p \in ProjectIds : GetNoveltyRisk(p)
    \/ \E p \in ProjectIds : GetProjectConfidence(p)

SpecNovelty == InitDefault /\ [][NextNovelty]_vars

\* Databases on which get_novelty_risk is evaluated: one project whose
\* evidence is scored, either a single row of any score, or a paper and a
\* patent (stored in either order) with scores around the thresholds.
BoundaryScores == {4000, 4500, 5000, 7500, 7600, 7800, 8000, 8200}

ScoredEvidence(kinds, scores) ==
    /\ candidate_evidence = [i \in DOMAIN kinds |-> [project_id |-> 1, source_type |-> kinds[i]]]
    /\ similarity_scores = [i \in DOMAIN kinds |->
                               [project_id |-> 1, evidence_id |-> i,
                                score |-> scores[i], evidence_type |-> kinds[i]]]

InitRisk ==
    /\ compliance_mode = FALSE
    /\ audit_logs_enabled = TRUE
    /\ projects = <<[type |-> "RESEARCH", has_idea_text |-> TRUE]>>
    /\ \/ \E kind \in {"paper", "patent"}, score \in 0..MaxScore :
             /\ ScoredEvidence(<<kind>>, <<score>>)
             /\ analysis_states = (1 :> [NewAnalysisState EXCEPT !.similarity_computed = TRUE,
                                                                 !.max_similarity_score = score])
       \/ \E kinds \in {<<"paper", "patent">>, <<"patent", "paper">>},
             s1 \in BoundaryScores, s2 \in BoundaryScores :
             /\ ScoredEvidence(kinds, <<s1, s2>>)
             /\ analysis_states = (1 :> [NewAnalysisState EXCEPT !.similarity_computed = TRUE,
                                                                 !.max_similarity_score = Max({s1, s2})])
    /\ user_feedback = <<>>
    /\ confidence_calibrations = <<>>
    /\ audit_logs = <<>>
    /\ draft_versions = <<>>
    /\ claim_drafts = <<>>
    /\ requests = NoRequests
    /\ response = NoResponse

NextRisk == GetNoveltyRisk(1)

SpecRisk == InitRisk /\ [][NextRisk]_vars

\* the feedback ledger: submissions, summaries and the calibration that
\* reads the project's feedback
FeedbackInputs == {"AGREE", "DISAGREE", "BOGUS"}
OutputInputs == {"CLAIM", "BOGUS"}
OutputIds == {"claim_1", "draft_1"}

NextFeedback ==
    \/ CreateProject("RESEARCH", TRUE)
    \/ \E o \in OutputIds, ot \in OutputInputs, p \in ProjectIds, ft \in FeedbackInputs,
          commit_ok \in BOOLEAN : SubmitFeedback(o, ot, p, ft, commit_ok)
    \/ \E o \in OutputIds : GetFeedbackForOutput(o)
    \/ \E p \in ProjectIds : GetProjectConfidence(p)

SpecFeedback == InitDefault /\ [][NextFeedback]_vars

\* Feedback tables on which get_feedback_for_output is evaluated: for the
\* output "claim_1" every number of records of every kind, stored kind by
\* kind, and possibly one DISAGREE record of another output in between.
FeedbackKinds == <<"HELPFUL", "NOT_HELPFUL", "AGREE", "DISAGREE", "NEEDS_REVISION", "NEEDS_EXPERT">>

RECURSIVE FeedbackTable(_, _)
FeedbackTable(counts, k) ==
    IF k = 0 THEN <<>>
    ELSE FeedbackTable(counts, k - 1) \o Repeat(FeedbackRow(1, "claim_1", FeedbackKinds[k]), counts[k])

InitSummary ==
    /\ compliance_mode = FALSE
    /\ audit_logs_enabled = TRUE
    /\ projects = <<[type |-> "RESEARCH", has_idea_text |-> TRUE]>>
    /\ analysis_states = (1 :> NewAnalysisState)
    /\ candidate_evidence = <<>>
    /\ similarity_scores = <<>>
    /\ \E counts \in [DOMAIN FeedbackKinds -> 0..MaxKindCount], other \in BOOLEAN :
          user_feedback =
              (IF other THEN <<FeedbackRow(1, "draft_1", "DISAGREE")>> ELSE <<>>)
              \o FeedbackTable(counts, Len(FeedbackKinds))
    /\ confidence_calibrations = <<>>
    /\ audit_logs = <<>>
    /\ draft_versions = <<>>
    /\ claim_drafts = <<>>
    /\ requests = NoRequests
    /\ response = NoResponse

NextSummary == \E o \in OutputIds : GetFeedbackForOutput(o)

SpecSummary == InitSummary /\ [][NextSummary]_vars

\* A project whose evidence is retrieved and embedded, before any score is
\* computed, with compute-similarity requests served concurrently.
InitScoring ==
    /\ compliance_mode = FALSE
    /\ audit_logs_enabled = TRUE
    /\ projects = <<[type |-> "RESEARCH", has_idea_text |-> TRUE]>>
    /\ analysis_states = (1 :> NewAnalysisState)
    /\ candidate_evidence = Repeat([project_id |-> 1, source_type |-> "paper"], MaxEvidence)
    /\ similarity_scores = <<>>
    /\ user_feedback = <<>>
    /\ confidence_calibrations = <<>>
    /\ audit_logs = <<>>
    /\ draft_versions = <<>>
    /\ claim_drafts = <<>>
    /\ requests = NoRequests
    /\ response = NoResponse

NextScoring ==
    \/ \E r \in Requests, p \in ProjectIds, idea_embedded \in BOOLEAN :
          \E embedded \in SUBSET ProjectEvidence(p) :
             \E cosine \in [embedded -> ScoreValues] : ComputeSimilarityBegin(r, p, idea_embedded, cosine)
    \/ \E r \in Requests : ComputeSimilarityLookup(r)
    \/ \E r \in Requests : ComputeSimilarityCommit(r)
    \/ \E p \in ProjectIds : GetNoveltyRisk(p)

SpecScoring == InitScoring /\ [][NextScoring]_vars

\* Databases on which calculate_confidence is evaluated for projects of
\* every type and domain (Project.domain is a free string or null)
Domains == RESTRICTED_CONTEXTS \cup {"AI", None}

InitDomain ==
    /\ compliance_mode = FALSE
    /\ audit_logs_enabled = TRUE
    /\ \E t \in ProjectType, domain \in Domains :
          projects = <<[type |-> t, has_idea_text |-> TRUE, domain |-> domain]>>
    /\ \E n \in 0..MaxCalcEvidence, risk \in NoveltyRiskLevel :
          /\ risk # "UNKNOWN" => n >= 1
          /\ candidate_evidence = Repeat([project_id |-> 1, source_type |-> "paper"], n)
          /\ analysis_states =
                (1 :> IF risk = "UNKNOWN" THEN NewAnalysisState
                      ELSE [novelty_risk |-> risk, similarity_computed |-> TRUE,
                            max_similarity_score |-> ScoreOfRisk(risk), top_evidence_id |-> 1])
          /\ similarity_scores =
                IF risk = "UNKNOWN" THEN <<>>
                ELSE <<[project_id |-> 1, evidence_id |-> 1,
                        score |-> ScoreOfRisk(risk), evidence_type |-> "paper"]>>
    /\ \E d \in 0..MaxFeedback, a \in 0..MaxFeedback :
          user_feedback = Repeat(FeedbackRow(1, "o1", "DISAGREE"), d)
                          \o Repeat(FeedbackRow(1, "o1", "AGREE"), a)
    /\ confidence_calibrations = <<>>
    /\ audit_logs = <<>>
    /\ draft_versions = <<>>
    /\ claim_drafts = <<>>
    /\ requests = NoRequests
    /\ response = NoResponse

NextDomain == GetProjectConfidence(1)

SpecDomain == InitDomain /\ [][NextDomain]_vars

\* Projects with a scored paper and a scored patent (stored in either order,
\* scores around the thresholds), possibly further evidence without a score,
\* and some feedback: the novelty verdict followed by the calibration.
InitScenario ==
    /\ compliance_mode = FALSE
    /\ audit_logs_enabled = TRUE
    /\ \E t \in ProjectType : projects = <<[type |-> t, has_idea_text |-> TRUE]>>
    /\ \E kinds \in {<<"paper", "patent">>, <<"patent", "paper">>},
          s1 \in BoundaryScores, s2 \in BoundaryScores, unscored \in 0..MaxEvidence :
          /\ candidate_evidence =
                 [i \in DOMAIN kinds |-> [project_id |-> 1, source_type |-> kinds[i]]]
                 \o Repeat([project_id |-> 1, source_type |-> "paper"], unscored)
          /\ similarity_scores = [i \in DOMAIN kinds |->
                                     [project_id |-> 1, evidence_id |-> i,
                                      score |-> IF i = 1 THEN s1 ELSE s2, evidence_type |-> kinds[i]]]
          /\ analysis_states = (1 :> [NewAnalysisState EXCEPT !.similarity_computed = TRUE,
                                                              !.max_similarity_score = Max({s1, s2})])
    /\ \E d \in 0..MaxFeedback, a \in 0..MaxFeedback :
          user_feedback = Repeat(FeedbackRow(1, "o1", "DISAGREE"), d)
                          \o Repeat(FeedbackRow(1, "o1", "AGREE"), a)
    /\ confidence_calibrations = <<>>
    /\ audit_logs = <<>>
    /\ draft_versions = <<>>
    /\ claim_drafts = <<>>
    /\ requests = NoRequests
    /\ response = NoResponse

NextScenario ==
    \/ GetNoveltyRisk(1)
    \/ GetProjectConfidence(1)

SpecScenario == InitScenario /\ [][NextScenario]_vars

\* calibration requests served concurrently while feedback arrives
NextCalibrating ==
    \/ CreateProject("RESEARCH", TRUE)
    \/ \E ft \in {"AGREE", "DISAGREE"} : SubmitFeedback("claim_1", "CLAIM", 1, ft, TRUE)
    \/ \E r \in Requests, p \in ProjectIds : GetOrCreateCalibrationBegin(r, p)
    \/ \E r \in Requests : GetOrCreateCalibrationLookup(r)
    \/ \E r \in Requests : GetOrCreateCalibrationCommit(r)

SpecCalibrating == InitDefault /\ [][NextCalibrating]_vars

\* feedback submissions served concurrently, and the summaries
NextSubmitting ==
    \/ \E r \in Requests, o \in OutputIds, ot \in OutputInputs, ft \in FeedbackInputs :
          SubmitFeedbackBegin(r, o, ot, 1, ft)
    \/ \E r \in Requests, commit_ok \in BOOLEAN : SubmitFeedbackCommit(r, commit_ok)
    \/ \E o \in OutputIds : GetFeedbackForOutput(o)

SpecSubmitting == InitDefault /\ [][NextSubmitting]_vars

\* the audit ledger with the operations that write to it or pass it by, on
\* patent projects (the only ones claim generation accepts)
NextLedger ==
    \/ CreateProject("PATENT", TRUE)
    \/ \E ft \in {"DISAGREE", "BOGUS"} : SubmitFeedback("claim_1", "CLAIM", 1, ft, TRUE)
    \/ \E write_ok \in BOOLEAN : LogActionCall("SYSTEM_STARTUP", "System", 0, None, write_ok)
    \/ \E p \in ProjectIds, at \in {"PROJECT_CREATED", "BOGUS"} :
          LogActionCall(at, "Project", p, "debug_user", TRUE)
    \/ \E p \in ProjectIds : GetProjectAuditTrail(p)
    \/ \E p \in ProjectIds, llm_success \in BOOLEAN : OptimizeDraft(p, llm_success, TRUE)
    \/ \E p \in ProjectIds, llm_success \in BOOLEAN : GenerateClaims(p, llm_success)
    \/ GetProjectConfidence(1)

SpecLedger == Init /\ [][NextLedger]_vars

\* the compliance gate with the operations the restriction table names
FeatureNames == DOMAIN RESTRICTED_FEATURES \cup {"EVIDENCE_RETRIEVAL", ""}

\* instructions a user may send with a draft-optimize request
Instructions == {"", "Make it sound groundbreaking and add two new claims", CLARITY_INSTRUCTION}

NextCompliance ==
    \/ \E type \in {"RESEARCH", "PATENT"}, has_idea_text \in BOOLEAN : CreateProject(type, has_idea_text)
    \/ \E f \in FeatureNames : ValidateFeatureAccess(f)
    \/ \E instruction \in Instructions : CheckDraftOptimizationParamsCall(instruction)
    \/ \E p \in ProjectIds, llm_success \in BOOLEAN : GenerateClaims(p, llm_success)
    \/ \E p \in ProjectIds, llm_success, audit_write_ok \in BOOLEAN :
          OptimizeDraft(p, llm_success, audit_write_ok)

SpecCompliance == Init /\ [][NextCompliance]_vars

\* the audit queries with the operations that write audit entries
TrailLimits == {1, DEFAULT_TRAIL_LIMIT}
SystemLogLimits == {1, DEFAULT_SYSTEM_LOG_LIMIT}

NextTrail ==
    \/ CreateProject("PATENT", TRUE)
    \/ LogActionCall("SYSTEM_STARTUP", "System", 0, None, TRUE)
    \/ \E p \in ProjectIds : LogActionCall("PROJECT_CREATED", "Project", p, "debug_user", TRUE)
    \/ \E p \in ProjectIds : LogActionCall("CLAIMS_GENERATED", "Project", p, None, TRUE)
    \/ \E p \in ProjectIds : OptimizeDraft(p, TRUE, TRUE)
    \/ \E p \in ProjectIds, limit \in TrailLimits : ProjectAuditTrailQuery(p, limit)
    \/ \E limit \in SystemLogLimits : GetRecentSystemLogs(limit)

SpecTrail == InitDefault /\ [][NextTrail]_vars

\* --------------------------------------------------------------- claims
Calibrated == response.op = "get_project_confidence" /\ response.project_id \in DOMAIN projects

\* C1: a project of type PATENT (the restricted context) is never rated HIGH:
\* every result of calculate_confidence for it is LOW or MEDIUM.
C1_NeverHighRestricted ==
    (Calibrated /\ projects[response.project_id].type = "PATENT")
        => response.result.confidence_level \in {"LOW", "MEDIUM"}

\* C1 witness: a PATENT project with strong evidence was calibrated and got MEDIUM
C1_Witness ==
    /\ Calibrated
    /\ projects[response.project_id].type = "PATENT"
    /\ response.inputs.evidence_count >= EVIDENCE_COUNT_MEDIUM_THRESHOLD
    /\ response.result.confidence_level = "MEDIUM"

\* C2: when the disagreement rate calculate_confidence works with exceeds 0.30
\* the result is LOW with human_review_recommended and disagreement_flag set,
\* whatever the evidence count, the novelty risk and the project type.
C2_HighDisagreementLow ==
    (Calibrated /\ 100 * response.inputs.disagreement_rate[1] > 30 * response.inputs.disagreement_rate[2])
        => /\ response.result.confidence_level = "LOW"
           /\ response.result.human_review_recommended = TRUE
           /\ response.result.disagreement_flag = TRUE

\* C2 witness: 4 DISAGREE and 6 AGREE out of 10 records, strong evidence, gave LOW
C2_Witness ==
    /\ Calibrated
    /\ Len(user_feedback) = 10
    /\ Cardinality({i \in DOMAIN user_feedback : user_feedback[i].feedback_type = "DISAGREE"}) = 4
    /\ Cardinality({i \in DOMAIN user_feedback : user_feedback[i].feedback_type = "AGREE"}) = 6
    /\ response.inputs.evidence_count >= EVIDENCE_COUNT_MEDIUM_THRESHOLD
    /\ response.result.confidence_level = "LOW"
    /\ response.result.disagreement_flag = TRUE

\* the six-rule decision list of the specification, first match wins
SixRuleList(novelty_risk, evidence_count, rate, restricted) ==
    CASE novelty_risk = "RED" /\ evidence_count < 3 -> "LOW"
      [] OTHER ->
    CASE 100 * rate[1] > 30 * rate[2] -> "LOW"
      [] OTHER ->
    CASE restricted ->
            IF evidence_count >= 10 /\ 10 * rate[1] < rate[2] THEN "MEDIUM" ELSE "LOW"
      [] OTHER ->
    CASE evidence_count >= 10 /\ 10 * rate[1] < rate[2] -> "MEDIUM"
      [] OTHER ->
    CASE evidence_count >= 3 ->
            IF 10 * rate[1] < 2 * rate[2] THEN "MEDIUM" ELSE "LOW"
      [] OTHER -> "LOW"

\* C5: the confidence_level of every result equals the ordered six-rule
\* decision list applied to the novelty risk, evidence count, disagreement
\* rate and restricted-context flag of the project.
C5_SixRuleList ==
    Calibrated =>
        response.result.confidence_level =
            SixRuleList(response.inputs.novelty_risk, response.inputs.evidence_count,
                        response.inputs.disagreement_rate, response.inputs.is_restricted_context)

\* C5 witness: rule 5 decided at its boundary: moderate evidence, rate exactly 0.20, LOW
C5_Witness ==
    /\ Calibrated
    /\ ~response.inputs.is_restricted_context
    /\ response.inputs.evidence_count \in 3..9
    /\ response.inputs.disagreement_rate = <<2, 10>>
    /\ response.result.confidence_level = "LOW"

\* C6: human_review_recommended is true whenever the level is LOW, or the
\* context is restricted, or the disagreement rate exceeds 0.30, or the
\* novelty risk is RED.
C6_HumanReview ==
    (/\ Calibrated
     /\ \/ response.result.confidence_level = "LOW"
        \/ response.inputs.is_restricted_context
        \/ 100 * response.inputs.disagreement_rate[1] > 30 * response.inputs.disagreement_rate[2]
        \/ response.inputs.novelty_risk = "RED")
        => response.result.human_review_recommended = TRUE

\* C6 witness: the scenario: restricted context, 12 evidence items,
\* disagreement rate 0.05 (1 of 20), MEDIUM with human review recommended
C6_Witness ==
    /\ Calibrated
    /\ projects[response.project_id].type = "PATENT"
    /\ response.inputs.evidence_count = 12
    /\ response.inputs.disagreement_rate = <<1, 20>>
    /\ response.result.confidence_level = "MEDIUM"
    /\ response.result.human_review_recommended = TRUE

\* the counts of the project's feedback by kind
KindCount(project_id, kinds) ==
    Cardinality({i \in DOMAIN user_feedback :
        user_feedback[i].project_id = project_id /\ user_feedback[i].feedback_type \in kinds})

\* C7: the disagreement rate calculate_confidence reports for a project is
\* (DISAGREE + NOT_HELPFUL) / (DISAGREE + NOT_HELPFUL + AGREE + HELPFUL) over
\* the project's feedback, and 0.0 without records of these four kinds.
C7_RateOfFourKinds ==
    Calibrated =>
        LET negative == KindCount(response.project_id, {"DISAGREE", "NOT_HELPFUL"})
            positive == KindCount(response.project_id, {"AGREE", "HELPFUL"})
        IN  response.result.metrics.disagreement_rate =
                IF negative + positive = 0 THEN 0
                ELSE RoundMilli(negative, negative + positive)

\* the severity order RED > YELLOW > GREEN > UNKNOWN
Severity(risk) ==
    CASE risk = "RED" -> 3 [] risk = "YELLOW" -> 2 [] risk = "GREEN" -> 1 [] risk = "UNKNOWN" -> 0

MoreSevere(a, b) == IF Severity(a) >= Severity(b) THEN a ELSE b

NoveltyAnswered ==
    response.op = "get_novelty_risk" /\ response.status = 200

\* C8: the verdict get_novelty_risk returns and stores is the more severe of
\* the research risk and the patent risk of the project's stored scores.
C8_VerdictIsHighestSeverity ==
    NoveltyAnswered =>
        /\ response.novelty_risk = MoreSevere(KindRisk(response.project_id, "paper"),
                                              KindRisk(response.project_id, "patent"))
        /\ analysis_states[response.project_id].novelty_risk = response.novelty_risk

\* the verdicts the project's current similarity scores imply
ImpliedVerdicts(project_id) ==
    IF ProjectScores(project_id) = {} THEN {"UNKNOWN"}
    ELSE {OverallRisk(project_id, top) : top \in TopScores(project_id)}

\* C10: a calibration that directly follows compute_similarity for the same
\* project is based on the verdict of the scores now stored.
C10_NoDrift ==
    [][(/\ response.op = "compute_similarity"
        /\ response'.op = "get_project_confidence"
        /\ response'.project_id = response.project_id
        /\ response'.project_id \in DOMAIN projects)
          => response'.inputs.novelty_risk \in ImpliedVerdicts(response.project_id)]_vars

\* the maximum stored score of a kind for the project, -1 without one
KindMax(project_id, evidence_type) ==
    LET rows == {i \in DOMAIN similarity_scores :
                    similarity_scores[i].project_id = project_id
                    /\ similarity_scores[i].evidence_type = evidence_type}
    IN  IF rows = {} THEN -1 ELSE Max({similarity_scores[i].score : i \in rows})

\* C9: a kind's maximum score is classified with inclusive thresholds, in
\* stored units: research >= 8000 RED, >= 5000 YELLOW, else GREEN; patent
\* >= 7500 RED, >= 4500 YELLOW, else GREEN.
C9_InclusiveThresholds ==
    NoveltyAnswered =>
        LET research == KindMax(response.project_id, "paper")
            patent == KindMax(response.project_id, "patent")
        IN  /\ research >= 0 =>
                  response.research_risk =
                      IF research >= 8000 THEN "RED" ELSE IF research >= 5000 THEN "YELLOW" ELSE "GREEN"
            /\ patent >= 0 =>
                  response.patent_risk =
                      IF patent >= 7500 THEN "RED" ELSE IF patent >= 4500 THEN "YELLOW" ELSE "GREEN"

\* C9 witness: a patent score exactly at the red threshold was classified RED
C9_Witness ==
    /\ NoveltyAnswered
    /\ KindMax(response.project_id, "patent") = 7500
    /\ KindMax(response.project_id, "paper") = -1
    /\ response.patent_risk = "RED"

\* C3: the audit ledger is append-only: every step of every operation keeps
\* all entries written so far, unchanged and in place; the ledger only grows.
C3_AuditAppendOnly ==
    [][/\ Len(audit_logs') >= Len(audit_logs)
       /\ SubSeq(audit_logs', 1, Len(audit_logs)) = audit_logs]_vars

\* C3 witness: two entries are in the ledger, the second written by an
\* audited operation after the first
C3_Witness ==
    /\ Len(audit_logs) = 2
    /\ audit_logs[2].action_type = "DRAFT_OPTIMIZED"
    /\ response.op = "optimize_draft"

\* C4: a successful submit_feedback adds exactly one record and keeps every
\* earlier record; a DISAGREE submission raises the disagree_count and the
\* total_count get_feedback_for_output reports for the output by one each.
C4_FeedbackPreserved ==
    [][(response'.op = "submit_feedback" /\ response'.status = 200) =>
          /\ Len(user_feedback') = Len(user_feedback) + 1
          /\ SubSeq(user_feedback', 1, Len(user_feedback)) = user_feedback
          /\ response'.feedback_type = "DISAGREE" =>
                LET before == FeedbackSummary(user_feedback, response'.output_id)
                    after == FeedbackSummary(user_feedback', response'.output_id)
                IN  /\ after.disagree_count = before.disagree_count + 1
                    /\ after.total_count = before.total_count + 1]_vars

\* C4 witness: two DISAGREE records for the same output are stored and the
\* summary of the output counts both
C4_Witness ==
    /\ response.op = "get_feedback_for_output"
    /\ response.summary.disagree_count = 2
    /\ response.summary.total_count = 2
    /\ Len(user_feedback) = 2

\* C11: calibrating the same project twice in a row, with no write in between,
\* returns the same confidence_level, human_review_recommended,
\* disagreement_flag, notes and metrics both times (the snapshot row the first
\* call stores does not feed into the second).
C11_IdempotentCalibration ==
    [][(/\ response.op = "get_project_confidence"
        /\ response'.op = "get_project_confidence"
        /\ response'.project_id = response.project_id)
          => response'.result = response.result]_vars

\* C11 witness: the project was calibrated a second time (only the update of
\* an existing snapshot row sets its disagreement_count)
C11_Witness ==
    /\ response.op = "get_project_confidence"
    /\ \E i \in DOMAIN confidence_calibrations :
          /\ confidence_calibrations[i].project_id = response.project_id
          /\ confidence_calibrations[i].disagreement_count > 0
          /\ confidence_calibrations[i].confidence_level = response.result.confidence_level

\* C12: validate_feature_access rejects a feature name exactly when compliance
\* mode is active and the name is PATENT_CLAIM_GENERATION or
\* DRAFT_OPTIMIZATION_CREATIVE; listed-allowed and unlisted names pass, and
\* with compliance mode inactive every name passes.
C12_GateBlocksExactlyRestricted ==
    response.op = "validate_feature_access" =>
        (response.status = 403 <=>
            (compliance_mode /\ response.feature_name \in
                {"PATENT_CLAIM_GENERATION", "DRAFT_OPTIMIZATION_CREATIVE"}))

\* C12 witness: in compliance mode the listed-allowed feature was let through
C12_Witness ==
    /\ compliance_mode
    /\ response.op = "validate_feature_access"
    /\ response.feature_name = "HIGH_RISK_NOVELTY_CHECK"
    /\ response.status = 200

\* C13: in compliance mode a generate-claims request for an existing project
\* is answered 403 with the restriction reason and changes no stored state.
C13_ClaimsBlockedBeforeWrite ==
    [][(/\ compliance_mode
        /\ response'.op = "generate_claims"
        /\ response'.project_id \in DOMAIN projects)
          => /\ response'.status = 403
             /\ response'.detail = RESTRICTED_FEATURES["PATENT_CLAIM_GENERATION"].reason
             /\ UNCHANGED <<projects, analysis_states, candidate_evidence, similarity_scores,
                            user_feedback, confidence_calibrations, audit_logs,
                            draft_versions, claim_drafts>>]_vars

\* C13 witness: a patent project with idea text asked for claims in compliance
\* mode and was refused
C13_Witness ==
    /\ compliance_mode
    /\ response.op = "generate_claims"
    /\ response.project_id \in DOMAIN projects
    /\ projects[response.project_id].type = "PATENT"
    /\ projects[response.project_id].has_idea_text
    /\ response.status = 403
    /\ claim_drafts = <<>>

\* C14: in compliance mode draft-optimize stores a draft version only after it
\* consulted the compliance gate for DRAFT_OPTIMIZATION_CREATIVE.
C14_DraftOptimizeGated ==
    (compliance_mode /\ response.op = "optimize_draft" /\ response.status = 200)
        => "DRAFT_OPTIMIZATION_CREATIVE" \in response.gate_consulted

\* C15 (as claimed): log_action with an action type outside ActionType
\* returns false and leaves the ledger unchanged.
C15_InvalidTypeReturnsFalse ==
    [][(response'.op = "log_action" /\ response'.action_type \notin ActionType)
          => (response'.returned = FALSE /\ audit_logs' = audit_logs)]_vars

\* C15 (amended): log_action with an action type outside ActionType appends
\* nothing; it returns false when audit logging is enabled and true, without
\* validating, when audit logging is disabled.
C15_InvalidTypeNotAppended ==
    [][(response'.op = "log_action" /\ response'.action_type \notin ActionType)
          => /\ audit_logs' = audit_logs
             /\ response'.returned = ~audit_logs_enabled]_vars

\* C15 witness: with logging enabled and an entry already stored, an invalid
\* action type was refused
C15_Witness ==
    /\ audit_logs_enabled
    /\ response.op = "log_action"
    /\ response.action_type \notin ActionType
    /\ response.returned = FALSE
    /\ Len(audit_logs) >= 1

\* C16: an audited operation (create-project, draft-optimize, generate-claims)
\* whose primary write has committed answers with its success status, whether
\* or not the audit entry was written.
C16_AuditNonFatal ==
    (/\ response.op \in {"create_project", "optimize_draft", "generate_claims"}
     /\ "committed" \in DOMAIN response
     /\ response.committed)
        => response.status \in {200, 201}

\* C17: with audit logging enabled, the audit trail of a project that
\* create-project stored holds a PROJECT_CREATED entry of that project.
C17_ProjectCreationAudited ==
    (/\ audit_logs_enabled
     /\ response.op = "get_project_audit_trail"
     /\ response.project_id \in DOMAIN projects)
        => \E k \in DOMAIN response.logs :
              /\ audit_logs[response.logs[k]].action_type = "PROJECT_CREATED"
              /\ audit_logs[response.logs[k]].entity_type = "Project"
              /\ audit_logs[response.logs[k]].entity_id = response.project_id

\* C18: with audit logging enabled, a successful submit-feedback adds an entry
\* to the audit ledger.
C18_FeedbackAudited ==
    [][(/\ audit_logs_enabled
        /\ response'.op = "submit_feedback"
        /\ response'.status = 200)
          => Len(audit_logs') > Len(audit_logs)]_vars

\* the stored state other than the response
Database == <<compliance_mode, audit_logs_enabled, projects, analysis_states, candidate_evidence,
              similarity_scores, user_feedback, confidence_calibrations, audit_logs,
              draft_versions, claim_drafts>>

IsAuditQuery(r) == r.op \in {"get_project_audit_trail", "get_recent_system_logs"}

\* the result of the query that `r` answers, over a ledger
QueryResult(table, r) ==
    IF r.op = "get_project_audit_trail"
    THEN ProjectAuditTrail(table, r.project_id, r.limit)
    ELSE RecentSystemLogs(table, r.limit)

Descending(ids) == \A k \in 1..(Len(ids) - 1) : ids[k] > ids[k + 1]

Entries(ids) == {ids[k] : k \in DOMAIN ids}

\* C19 (as claimed): across every step, each entry a query returns before the
\* step is returned, unchanged, by the same query after it; a result is
\* ordered newest first and a query changes no stored state.
C19_QueryResultsOnlyGrow ==
    [][/\ \A p \in ProjectIds, limit \in TrailLimits :
            /\ Entries(ProjectAuditTrail(audit_logs, p, limit))
                   \subseteq Entries(ProjectAuditTrail(audit_logs', p, limit))
            /\ \A i \in Entries(ProjectAuditTrail(audit_logs, p, limit)) : audit_logs'[i] = audit_logs[i]
       /\ \A limit \in SystemLogLimits :
            /\ Entries(RecentSystemLogs(audit_logs, limit))
                   \subseteq Entries(RecentSystemLogs(audit_logs', limit))
            /\ \A i \in Entries(RecentSystemLogs(audit_logs, limit)) : audit_logs'[i] = audit_logs[i]
       /\ IsAuditQuery(response') =>
            /\ response'.logs = QueryResult(audit_logs', response')
            /\ Descending(response'.logs)
            /\ Database' = Database]_vars

\* C19 (amended): each entry a query returns stays stored unchanged and is
\* returned again by the same query after any step unless more entries match
\* than the limit allows; a query returns the newest `limit` matching entries,
\* newest first, and changes no stored state.
C19_QueryNewestWithinLimit ==
    [][/\ \A p \in ProjectIds, limit \in TrailLimits :
            /\ \A i \in Entries(ProjectAuditTrail(audit_logs, p, limit)) :
                  i \in DOMAIN audit_logs' /\ audit_logs'[i] = audit_logs[i]
            /\ Len(ProjectAuditTrail(audit_logs', p, DEFAULT_TRAIL_LIMIT)) <= limit
                  => Entries(ProjectAuditTrail(audit_logs, p, limit))
                         \subseteq Entries(ProjectAuditTrail(audit_logs', p, limit))
       /\ \A limit \in SystemLogLimits :
            /\ \A i \in Entries(RecentSystemLogs(audit_logs, limit)) :
                  i \in DOMAIN audit_logs' /\ audit_logs'[i] = audit_logs[i]
            /\ Len(audit_logs') <= limit
                  => Entries(RecentSystemLogs(audit_logs, limit))
                         \subseteq Entries(RecentSystemLogs(audit_logs', limit))
       /\ IsAuditQuery(response') =>
            /\ response'.logs = QueryResult(audit_logs', response')
            /\ Descending(response'.logs)
            /\ \A i \in Entries(response'.logs), j \in DOMAIN audit_logs' :
                  (j > i /\ (response'.op = "get_project_audit_trail" =>
                                (audit_logs'[j].entity_type = "Project"
                                 /\ audit_logs'[j].entity_id = response'.project_id)))
                      => j \in Entries(response'.logs)
            /\ Database' = Database]_vars

\* C19 witness: a project's trail was queried after a second entry of the
\* project was written and lists both, the newer one first
C19_Witness ==
    /\ response.op = "get_project_audit_trail"
    /\ response.limit = DEFAULT_TRAIL_LIMIT
    /\ Len(response.logs) = 2
    /\ response.logs[1] > response.logs[2]
    /\ audit_logs[response.logs[1]].action_type = "CLAIMS_GENERATED"

\* C20: a feedback submission whose feedback_type is outside the six feedback
\* kinds, or whose output_type is outside the six output kinds, is answered
\* with an error and leaves the stored feedback as it was.
C20_InvalidFeedbackRefused ==
    [][(/\ response'.op = "submit_feedback"
        /\ (response'.feedback_type \notin FeedbackType \/ response'.output_type \notin OutputType))
           => (response'.status = 400 /\ user_feedback' = user_feedback)]_vars

\* C20 witness: with feedback already stored, a submission of a valid kind
\* for an unknown output type was refused
C20_Witness ==
    /\ response.op = "submit_feedback"
    /\ response.status = 400
    /\ response.feedback_type \in FeedbackType
    /\ response.output_type \notin OutputType
    /\ Len(user_feedback) > 0

\* the number of stored records of an output with a kind among `kinds`
OutputKindCount(output_id, kinds) ==
    Cardinality({i \in DOMAIN user_feedback :
        user_feedback[i].output_id = output_id /\ user_feedback[i].feedback_type \in kinds})

\* C21: the summary of an output reports, over all its stored records, one
\* count per feedback kind and the total; its disagreement_rate (reported to
\* three decimals) is (DISAGREE + NOT_HELPFUL) / (DISAGREE + NOT_HELPFUL +
\* AGREE + HELPFUL), and 0.0 when the output has no record of these four kinds.
C21_SummaryOfOutput ==
    response.op = "get_feedback_for_output" =>
        LET s == response.summary
            negative == OutputKindCount(s.output_id, {"DISAGREE", "NOT_HELPFUL"})
            qualifying == OutputKindCount(s.output_id, {"DISAGREE", "NOT_HELPFUL", "AGREE", "HELPFUL"})
            gap == s.disagreement_rate * qualifying - 1000 * negative
        IN  /\ s.total_count = OutputKindCount(s.output_id, FeedbackType)
            /\ s.helpful_count = OutputKindCount(s.output_id, {"HELPFUL"})
            /\ s.not_helpful_count = OutputKindCount(s.output_id, {"NOT_HELPFUL"})
            /\ s.agree_count = OutputKindCount(s.output_id, {"AGREE"})
            /\ s.disagree_count = OutputKindCount(s.output_id, {"DISAGREE"})
            /\ s.needs_revision_count = OutputKindCount(s.output_id, {"NEEDS_REVISION"})
            /\ s.needs_expert_count = OutputKindCount(s.output_id, {"NEEDS_EXPERT"})
            /\ qualifying = 0 => s.disagreement_rate = 0
            /\ qualifying > 0 => (2 * gap <= qualifying /\ -2 * gap <= qualifying)

\* C21 witness: an output with one NOT_HELPFUL, two AGREE and two
\* NEEDS_REVISION records was summarised: rate 0.333, the revisions counted apart
C21_Witness ==
    /\ response.op = "get_feedback_for_output"
    /\ response.summary.not_helpful_count = 1
    /\ response.summary.agree_count = 2
    /\ response.summary.disagree_count = 0
    /\ response.summary.helpful_count = 0
    /\ response.summary.needs_revision_count = 2
    /\ response.summary.disagreement_rate = 333

\* C22: there is at most one SimilarityScore row per (project, evidence)
\* pair, also after compute-similarity requests for the same project have
\* interleaved.
C22_OneScorePerPair ==
    \A i, j \in DOMAIN similarity_scores :
        (/\ similarity_scores[i].project_id = similarity_scores[j].project_id
         /\ similarity_scores[i].evidence_id = similarity_scores[j].evidence_id)
            => i = j

\* C23: asking for the confidence of a project id that does not exist is
\* answered with a not-found error and leaves the calibration table as it was.
C23_UnknownProjectNotFound ==
    [][(response'.op = "get_project_confidence" /\ response'.project_id \notin DOMAIN projects')
          => (response'.status = 404 /\ confidence_calibrations' = confidence_calibrations)]_vars

\* C24: a project whose domain is in the restricted-context set is calibrated
\* by the restricted-context rule whatever its type: the level is that of the
\* decision list with the restricted flag set, and human review is recommended.
C24_DomainRestricted ==
    (Calibrated /\ projects[response.project_id].domain \in RESTRICTED_CONTEXTS)
        => /\ response.result.confidence_level =
                  SixRuleList(response.inputs.novelty_risk, response.inputs.evidence_count,
                              response.inputs.disagreement_rate, TRUE)
           /\ response.result.human_review_recommended = TRUE

\* the database of the scenario: an unrestricted project, a research item
\* scored 0.82 and a patent scored 0.40, nothing else, no feedback
ScenarioDatabase ==
    /\ projects[1].type # "PATENT"
    /\ Len(candidate_evidence) = 2
    /\ KindMax(1, "paper") = 8200
    /\ KindMax(1, "patent") = 4000
    /\ user_feedback = <<>>

\* C25: in the scenario the novelty verdict is RED and the calibration is LOW
\* with human review recommended; and whenever the novelty risk is RED with
\* fewer than 3 evidence items the calibration is LOW with human review
\* recommended, whatever the feedback and the project type.
C25_RedLowEvidenceScenario ==
    /\ (NoveltyAnswered /\ ScenarioDatabase) => response.novelty_risk = "RED"
    /\ (Calibrated /\ ScenarioDatabase)
          => /\ response.result.confidence_level = "LOW"
             /\ response.result.human_review_recommended = TRUE
    /\ (Calibrated /\ response.inputs.novelty_risk = "RED"
                   /\ response.inputs.evidence_count < EVIDENCE_COUNT_LOW_THRESHOLD)
          => /\ response.result.confidence_level = "LOW"
             /\ response.result.human_review_recommended = TRUE

\* C25 witness: the scenario was run: the verdict RED was stored and the
\* calibration that followed gave LOW with human review
C25_Witness ==
    /\ Calibrated
    /\ ScenarioDatabase
    /\ analysis_states[1].novelty_risk = "RED"
    /\ response.inputs.novelty_risk = "RED"
    /\ response.inputs.evidence_count = 2
    /\ response.result.confidence_level = "LOW"
    /\ response.result.human_review_recommended = TRUE

\* C26: in compliance mode check_draft_optimization_params returns the fixed
\* safe instruction for every instruction it is given; outside compliance
\* mode it returns the instruction unchanged.
C26_InstructionOverride ==
    response.op = "check_draft_optimization_params" =>
        /\ compliance_mode => response.returned = CLARITY_INSTRUCTION
        /\ ~compliance_mode => response.returned = response.instruction

\* C26 witness: in compliance mode a user's own instruction was replaced
C26_Witness ==
    /\ compliance_mode
    /\ response.op = "check_draft_optimization_params"
    /\ response.instruction \notin {"", CLARITY_INSTRUCTION}
    /\ response.returned = CLARITY_INSTRUCTION

\* C27: there is at most one ConfidenceCalibration row per project, also
\* after calibrate requests for the same project have interleaved.
C27_OneCalibrationPerProject ==
    \A i, j \in DOMAIN confidence_calibrations :
        confidence_calibrations[i].project_id = confidence_calibrations[j].project_id => i = j

\* the step is the successful commit of a submission in flight
FeedbackCommitted ==
    \E r \in Requests :
        /\ requests[r].op = "submit_feedback"
        /\ requests'[r] = Idle
        /\ response'.status = 200

\* C28: when valid submissions are served concurrently, each successful one
\* adds its own record and leaves every stored record in place, whichever
\* request commits first, and the summary of an output counts all of them.
C28_ConcurrentFeedbackKept ==
    [][/\ Len(user_feedback') >= Len(user_feedback)
       /\ SubSeq(user_feedback', 1, Len(user_feedback)) = user_feedback
       /\ FeedbackCommitted =>
             /\ Len(user_feedback') = Len(user_feedback) + 1
             /\ response'.feedback_id = Len(user_feedback')
             /\ user_feedback'[response'.feedback_id].output_id = response'.output_id
             /\ user_feedback'[response'.feedback_id].feedback_type = response'.feedback_type
       /\ response'.op = "get_feedback_for_output" =>
             response'.summary.total_count =
                 Cardinality({i \in DOMAIN user_feedback' :
                                 user_feedback'[i].output_id = response'.summary.output_id})]_vars

\* C28 witness: two DISAGREE submissions for the same output overlapped (the
\* second to commit began before the first was stored); both records are
\* stored and the summary of the output counts both
C28_Witness ==
    /\ response.op = "submit_feedback"
    /\ response.status = 200
    /\ response.seen = 0
    /\ response.feedback_id = 2
    /\ user_feedback[1].output_id = response.output_id
    /\ FeedbackSummary(user_feedback, response.output_id).total_count = 2
    /\ FeedbackSummary(user_feedback, response.output_id).disagree_count = 2

\* C29: no result of calculate_confidence is HIGH, for restricted and
\* unrestricted projects alike, and no stored ConfidenceCalibration row has
\* the level HIGH.
C29_NeverHigh ==
    /\ response.op = "get_project_confidence"
          => response.result.confidence_level \in {"LOW", "MEDIUM"}
    /\ \A i \in DOMAIN confidence_calibrations :
          confidence_calibrations[i].confidence_level \in {"LOW", "MEDIUM"}

\* C29 witness: an unrestricted project with at least 10 evidence items and
\* feedback without any disagreement was calibrated and stored as MEDIUM
C29_Witness ==
    /\ Calibrated
    /\ ~response.inputs.is_restricted_context
    /\ response.inputs.evidence_count >= EVIDENCE_COUNT_MEDIUM_THRESHOLD
    /\ response.inputs.total_feedback > 0
    /\ response.inputs.disagreement_rate[1] = 0
    /\ response.result.confidence_level = "MEDIUM"
    /\ \E i \in DOMAIN confidence_calibrations :
          /\ confidence_calibrations[i].project_id = response.project_id
          /\ confidence_calibrations[i].confidence_level = "MEDIUM"

\* C30: after a calibration the project's stored snapshot agrees with the
\* result returned and with the project's rows, whether it was just created
\* or updated: level, flags, total_feedback_count, evidence_count, and
\* disagreement_count = the number of disagreeing feedback records.
C30_SnapshotAgrees ==
    Calibrated =>
        \A i \in ExistingCalibration(response.project_id) :
            /\ confidence_calibrations[i].confidence_level = response.result.confidence_level
            /\ confidence_calibrations[i].human_review_recommended = response.result.human_review_recommended
            /\ confidence_calibrations[i].disagreement_flag = response.result.disagreement_flag
            /\ confidence_calibrations[i].total_feedback_count = Cardinality(FeedbackList(response.project_id))
            /\ confidence_calibrations[i].evidence_count = EvidenceCount(response.project_id)
            /\ confidence_calibrations[i].disagreement_count = Disagreements(FeedbackList(response.project_id))

====
